---- MODULE Spec2Model ----
(***************************************************************************)
(* Model of the GitHub webhook server's merge-eligibility engine           *)
(* (webhook_server_container/libs/github_api.py, class ProcessGithubWehook).*)
(*                                                                         *)
(* Strings that the code splits on "-" are modelled as the sequence of     *)
(* their "-"-separated segments: "ApprovedBy-bob-smith" is                 *)
(* <<"ApprovedBy", "bob", "smith">>, and the prefix constant "ApprovedBy-" *)
(* is <<"ApprovedBy", "">>.  str.split("-")[-1] is then the last segment.  *)
(*                                                                         *)
(* The remote platform (GitHub) holds the label set, the latest check-run  *)
(* per name on the head commit and the merged flag.  A handler works on    *)
(* the PullRequest object it fetched when the event arrived                *)
(* (process(), _get_pull_request): self.pull_request.labels is the label   *)
(* list of that object; add_to_labels / remove_from_labels write to the    *)
(* platform and leave the object as fetched.                               *)
(***************************************************************************)
EXTENDS Integers, Sequences, FiniteSets, TLC

VARIABLES
    labels,            \* platform: label names on the pull request
    checkRuns,         \* platform: check-run name -> latest state on the head commit
    merged,            \* platform: pull_request.is_merged()
    mergeable,         \* platform: pull_request.mergeable
    parent_committer,  \* author of the pull request
    mergeCalls,        \* number of pull_request.merge() invocations
    comments,          \* number of create_issue_comment() invocations
    events,            \* number of webhook deliveries / platform changes so far
    lastOp,            \* name of the last handler or operation that ran
    evals,             \* record of every check_if_can_be_merged call of the last handler
    raisedOut,         \* the last handler ended with an uncaught exception
    response,          \* what the webhook endpoint answered to the last delivery
    pending,           \* labeled / unlabeled events the platform has yet to deliver
    dirty,             \* a label that matters for merging changed and no evaluation has read it
    procs,             \* handlers that run concurrently: local state of each
    lastReview         \* the review, /lgtm comment or push of the last delivery, and the labels before it

vars == <<labels, checkRuns, merged, mergeable, parent_committer, mergeCalls,
          comments, events, lastOp, evals, raisedOut, response, pending, dirty,
          procs, lastReview>>

\* the variables that only the specifications of event delivery and of
\* concurrent handlers change
aux == <<pending, dirty, procs, lastReview>>

----------------------------------------------------------------------------
(* Bounds of the model *)

MaxEvents == 2

\* label changes made in the specification of label events
MaxLabelChanges == 2
MaxReviews == 2
MaxPushes == 2

----------------------------------------------------------------------------
(* utils/constants.py *)

TOX_STR == <<"tox">>
SUCCESS_STR == "success"
FAILURE_STR == "failure"
IN_PROGRESS_STR == "in_progress"
QUEUED_STR == "queued"
ADD_STR == "add"
DELETE_STR == "delete"
CAN_BE_MERGED_STR == <<"can", "be", "merged">>
BUILD_CONTAINER_STR == <<"build", "container">>
PYTHON_MODULE_INSTALL_STR == <<"python", "module", "install">>
PRE_COMMIT_STR == <<"pre", "commit">>
WIP_STR == <<"wip">>
APPROVED_BY_LABEL_PREFIX == <<"ApprovedBy", "">>
CHANGED_REQUESTED_BY_LABEL_PREFIX == <<"ChangesRequestedBy", "">>
COMMENTED_BY_LABEL_PREFIX == <<"CommentedBy", "">>
LGTM_BY_LABEL_PREFIX == <<"LGTMBy", "">>
VERIFIED_LABEL_STR == <<"verified">>
LGTM_STR == <<"lgtm">>
HOLD_LABEL_STR == <<"hold">>
BRANCH_LABEL_PREFIX == <<"branch", "">>
NEEDS_REBASE_LABEL_STR == <<"needs", "rebase">>
SIZE_LABEL_PREFIX == "size/"
COMMAND_CHECK_CAN_MERGE_STR == <<"check", "can", "merge">>

SizeSuffixes == {"XS", "S", "M", "L", "XL", "XXL"}

\* f"{SIZE_LABEL_PREFIX}{_label}"
SizeLabel(suffix) == <<SIZE_LABEL_PREFIX \o suffix>>

USER_LABELS_DICT == {HOLD_LABEL_STR, VERIFIED_LABEL_STR, WIP_STR, LGTM_STR}

STATIC_LABELS_DICT ==
    USER_LABELS_DICT \cup {<<"CherryPicked">>, <<"needs", "rebase">>, CAN_BE_MERGED_STR}
                     \cup {SizeLabel(s) : s \in SizeSuffixes}

----------------------------------------------------------------------------
(* String helpers on the segment representation *)

\* f"{prefix}{s}" for a prefix that ends with "-"
WithPrefix(prefix, s) == SubSeq(prefix, 1, Len(prefix) - 1) \o s

\* label.startswith(prefix) for a prefix that ends with "-"
StartsWith(label, prefix) ==
    /\ Len(label) >= Len(prefix)
    /\ SubSeq(label, 1, Len(prefix) - 1) = SubSeq(prefix, 1, Len(prefix) - 1)

\* label.startswith(SIZE_LABEL_PREFIX)
StartsWithSizePrefix(label) == \E s \in SizeSuffixes : label = SizeLabel(s)

\* str.lower() of one segment
LowerSeg(s) ==
    CASE s = "ApprovedBy" -> "approvedby"
      [] s = "ChangesRequestedBy" -> "changesrequestedby"
      [] s = "CommentedBy" -> "commentedby"
      [] s = "LGTMBy" -> "lgtmby"
      [] OTHER -> s

\* prefix.lower() in label.lower(), for a one-word prefix that ends with "-":
\* the word is followed by a separator somewhere in the label
PrefixIn(prefix, label) ==
    \E i \in 1..(Len(label) - 1) : LowerSeg(label[i]) = LowerSeg(prefix[1])

\* label.split("-")[-1]
SplitLast(label) == <<label[Len(label)]>>

RECURSIVE StrLen(_)
\* len(label): the segments and the separators between them
StrLen(label) ==
    IF label = <<>> THEN 0
    ELSE IF Len(label) = 1 THEN Len(label[1])
    ELSE Len(label[1]) + 1 + StrLen(Tail(label))

----------------------------------------------------------------------------
(* Users and repository configuration *)

alice == <<"alice">>
bob_smith == <<"bob", "smith">>
carol == <<"carol">>
\* a login of 39 characters, the longest the platform allows
long_login == <<"a01234567890123456789012345678901234567">>

Users == {alice, bob_smith, carol}

\* OWNERS file: approvers
approvers == {alice, bob_smith, long_login}

\* config: auto-verified-and-merged-users
auto_verified_and_merged_users == {carol}

\* config: can-be-merged-required-labels
can_be_merged_required_labels == {VERIFIED_LABEL_STR}

\* config: tox, verified-job, container, pypi
tox == TRUE
verified_job == TRUE
build_and_push_container == FALSE
pypi == FALSE

\* branch protection: required_status_checks.contexts
BranchContexts == {<<"ci">>}

CheckNames == BranchContexts \cup {TOX_STR, VERIFIED_LABEL_STR, CAN_BE_MERGED_STR}

CheckStates == {"none", QUEUED_STR, IN_PROGRESS_STR, SUCCESS_STR, FAILURE_STR}

\* check_run.status
Status(st) == IF st \in {SUCCESS_STR, FAILURE_STR} THEN "completed" ELSE st

\* check_run.conclusion
Conclusion(st) == IF st \in {SUCCESS_STR, FAILURE_STR} THEN st ELSE "None"

----------------------------------------------------------------------------
(* The state a handler works on: the platform state plus the handler's own *)
(* PullRequest object (prLabels, prMergeable as fetched), the pending       *)
(* exception, and the log of evaluations it ran.                            *)

\* what the platform holds for the pull request
Platform(w) ==
    [labels |-> w.labels, checkRuns |-> w.checkRuns, merged |-> w.merged,
     mergeCalls |-> w.mergeCalls, comments |-> w.comments]

\* self.pull_request.labels
pull_request_labels_names(w) == w.prLabels

label_exists_in_pull_request(w, label) == label \in pull_request_labels_names(w)

\* TimeoutSampler(wait_timeout=30, sleep=5, func=label_exists_in_pull_request):
\* every sample reads the same PullRequest object, so the poll succeeds at
\* once or runs into TimeoutExpiredError and answers False
wait_for_label(w, label, exists) == label_exists_in_pull_request(w, label) = exists

\* pull_request.remove_from_labels: the platform answers 404 (PyGithub raises
\* UnknownObjectException) when the label is not on the pull request
remove_from_labels(w, label) ==
    IF label \in w.labels
    THEN [w EXCEPT !.labels = @ \ {label}]
    ELSE [w EXCEPT !.raised = TRUE]

\* pull_request.add_to_labels: adding a label twice keeps one
add_to_labels(w, label) == [w EXCEPT !.labels = @ \cup {label}]

\* the removal is left out
_remove_label_skipped(w, label) == w

_remove_label(w, label) ==
    IF w.raised THEN w
    ELSE IF label_exists_in_pull_request(w, label)
         THEN remove_from_labels(w, label)
         ELSE w

_add_label(w, label) ==
    IF w.raised THEN w
    ELSE IF StrLen(label) > 49 THEN w
    ELSE IF label_exists_in_pull_request(w, label) THEN w
    ELSE add_to_labels(w, label)

\* the merged attribute of the PullRequest object as it was fetched
merged_attribute(w) == w.prMerged

\* pull_request.is_merged() asks the platform
is_merged(w) == w.merged

\* a guard that never skips
skip_never(w) == FALSE

skip_if_pull_request_already_merged(w) == is_merged(w)

set_check_run_status(w, check_run, st) ==
    IF w.raised THEN w
    ELSE [w EXCEPT !.checkRuns[check_run] = st]

set_merge_check_queued(w) == set_check_run_status(w, CAN_BE_MERGED_STR, QUEUED_STR)
set_merge_check_success(w) == set_check_run_status(w, CAN_BE_MERGED_STR, SUCCESS_STR)
set_merge_check_failure(w) == set_check_run_status(w, CAN_BE_MERGED_STR, FAILURE_STR)
set_run_tox_check_queued(w) ==
    IF ~tox THEN w ELSE set_check_run_status(w, TOX_STR, QUEUED_STR)
set_run_tox_check_in_progress(w) == set_check_run_status(w, TOX_STR, IN_PROGRESS_STR)
set_run_tox_check_success(w) == set_check_run_status(w, TOX_STR, SUCCESS_STR)
set_run_tox_check_failure(w) == set_check_run_status(w, TOX_STR, FAILURE_STR)

\* the guard never finds a check-run in progress
is_check_run_in_progress_never(w, check_run) == FALSE

\* for run in self.last_commit.get_check_runs(): name and status in_progress
is_check_run_in_progress(w, check_run) ==
    w.checkRuns[check_run] # "none" /\ Status(w.checkRuns[check_run]) = IN_PROGRESS_STR

set_verify_check_queued(w) == set_check_run_status(w, VERIFIED_LABEL_STR, QUEUED_STR)
set_verify_check_success(w) == set_check_run_status(w, VERIFIED_LABEL_STR, SUCCESS_STR)

create_issue_comment(w) ==
    IF w.raised THEN w ELSE [w EXCEPT !.comments = @ + 1]

\* pull_request.merge(merge_method="squash"): the platform refuses to merge
\* a pull request that is already merged, and may refuse any merge (405, a
\* branch-protection rule is not met); PyGithub raises GithubException
merge(w) ==
    IF w.raised THEN w
    ELSE IF w.merged \/ w.mergeRefused
         THEN [w EXCEPT !.mergeCalls = @ + 1, !.raised = TRUE]
    ELSE [w EXCEPT !.mergeCalls = @ + 1, !.merged = TRUE]

get_branch_required_status_checks == BranchContexts

get_all_required_status_checks ==
    get_branch_required_status_checks
        \cup (IF tox THEN {TOX_STR} ELSE {})
        \cup (IF verified_job THEN {VERIFIED_LABEL_STR} ELSE {})
        \cup (IF build_and_push_container THEN {BUILD_CONTAINER_STR} ELSE {})
        \cup (IF pypi THEN {PYTHON_MODULE_INSTALL_STR} ELSE {})

\* list(self.last_commit.get_check_runs()): the names that have a check-run
LastCommitCheckRuns(w) == {c \in DOMAIN w.checkRuns : w.checkRuns[c] # "none"}

----------------------------------------------------------------------------
(* check_if_can_be_merged.  failure_output is kept as the sequence of its  *)
(* lines; a line is [kind, names], names being the names the line lists.   *)

Line(kind, names) == [kind |-> kind, names |-> names]

\* check_runs_in_progress: required check-runs, other than can-be-merged,
\* whose status is in_progress
CheckRunsInProgress(runs, required) ==
    {c \in DOMAIN runs :
        /\ runs[c] # "none"
        /\ Status(runs[c]) = IN_PROGRESS_STR
        /\ c # CAN_BE_MERGED_STR
        /\ c \in required}

InProgressOutput(check_runs_in_progress) ==
    IF check_runs_in_progress # {}
    THEN <<Line("Some required check runs in progress", check_runs_in_progress)>>
    ELSE <<>>

HoldWipOutput(_labels) ==
    (IF HOLD_LABEL_STR \in _labels THEN <<Line("Hold label exists.", {})>> ELSE <<>>)
    \o (IF WIP_STR \in _labels THEN <<Line("WIP label exists.", {})>> ELSE <<>>)

NotMergeableOutput(w) ==
    IF ~w.prMergeable THEN <<Line("PR is not mergeable", {})>> ELSE <<>>

\* failed_check_runs: the check-runs on the head commit that are not skipped
\* by the loop (can-be-merged, conclusion success or "queued", not required)
FailedCheckRuns(runs, required) ==
    {c \in DOMAIN runs :
        /\ runs[c] # "none"
        /\ ~ \/ c = CAN_BE_MERGED_STR
             \/ Conclusion(runs[c]) = SUCCESS_STR
             \/ Conclusion(runs[c]) = QUEUED_STR
             \/ c \notin required}

FailedOutput(failed_check_runs, check_runs_in_progress) ==
    IF failed_check_runs # {}
    THEN <<Line("Some check runs failed", failed_check_runs \ check_runs_in_progress)>>
    ELSE <<>>

\* the labels that add a "PR has changed requests from approvers" line
ChangeRequestLabels(_labels) ==
    {l \in _labels :
        /\ PrefixIn(CHANGED_REQUESTED_BY_LABEL_PREFIX, l)
        /\ SplitLast(l) \in approvers}

ChangeRequestOutput(_labels) ==
    [i \in 1..Cardinality(ChangeRequestLabels(_labels)) |->
        Line("PR has changed requests from approvers", {})]

MissingRequiredLabels(_labels) ==
    {l \in can_be_merged_required_labels : l \notin _labels}

MissingLabelsOutput(_labels) ==
    IF MissingRequiredLabels(_labels) # {}
    THEN <<Line("Missing required labels", MissingRequiredLabels(_labels))>>
    ELSE <<>>

PrApproved(_labels, author) ==
    \E l \in _labels :
        /\ PrefixIn(APPROVED_BY_LABEL_PREFIX, l)
        /\ SplitLast(l) \in approvers
        /\ author # SplitLast(l)

MissingApproversOutput(_labels, author) ==
    IF ~PrApproved(_labels, author)
    THEN <<Line("Missing lgtm/approved from approvers", approvers \ {author})>>
    ELSE <<>>

FailureOutput(w, runs, required) ==
    LET _labels == pull_request_labels_names(w)
        in_progress == CheckRunsInProgress(runs, required)
    IN  InProgressOutput(in_progress)
        \o HoldWipOutput(_labels)
        \o NotMergeableOutput(w)
        \o FailedOutput(FailedCheckRuns(runs, required), in_progress)
        \o ChangeRequestOutput(_labels)
        \o MissingLabelsOutput(_labels)
        \o MissingApproversOutput(_labels, w.parent_committer)

\* lines 1433-1449: the pull request can be merged
CanBeMergedPath(w) ==
    LET w1 == _add_label(w, CAN_BE_MERGED_STR)
        w2 == set_merge_check_success(w1)
    IN  IF w.parent_committer \in auto_verified_and_merged_users
        THEN merge(create_issue_comment(w2))
        ELSE w2

\* lines 1451-1454: the pull request cannot be merged
CannotBeMergedPath(w) ==
    set_merge_check_failure(_remove_label(w, CAN_BE_MERGED_STR))

\* lines 1456-1463: except Exception
ExceptPath(w) ==
    IF ~w.raised THEN w
    ELSE set_merge_check_failure(_remove_label([w EXCEPT !.raised = FALSE], CAN_BE_MERGED_STR))

\* the approval alone decides
CanMergeApprovedOnly(pr_approved, failure_output) == pr_approved

\* line 1433: if pr_approved and not failure_output
CanMerge(pr_approved, failure_output) == pr_approved /\ failure_output = <<>>

\* what one call of check_if_can_be_merged did, kept for the properties:
\* the platform state before and after the call, what the call read, its
\* verdict and failure_output, and whether an exception left the call
EvalRecord(pre, labelsRead, runs, verdict, reasons, post) ==
    [verdict |-> verdict, reasons |-> reasons, labelsRead |-> labelsRead,
     checksRead |-> runs, mergeable |-> pre.prMergeable,
     pre |-> Platform(pre), post |-> Platform(post), raised |-> post.raised]

check_if_can_be_merged(w) ==
    IF w.raised THEN w
    ELSE IF skip_if_pull_request_already_merged(w)
    THEN [w EXCEPT !.evals =
            Append(@, EvalRecord(w, {}, w.checkRuns, "skipped", <<>>, w))]
    ELSE
        LET required == get_all_required_status_checks
            w1 == set_merge_check_queued(w)
            runs == w1.checkRuns
            failure_output == FailureOutput(w1, runs, required)
            pr_approved == PrApproved(pull_request_labels_names(w1), w1.parent_committer)
            can_merge == CanMerge(pr_approved, failure_output)
            w2 == IF can_merge THEN CanBeMergedPath(w1) ELSE CannotBeMergedPath(w1)
            w3 == ExceptPath(w2)
        IN  [w3 EXCEPT !.evals =
                Append(@, EvalRecord(w, pull_request_labels_names(w1), runs,
                                     IF can_merge THEN "mergeable" ELSE "blocked",
                                     failure_output, w3))]

----------------------------------------------------------------------------
(* Review labels and comment commands *)

ReviewStates == {<<"approved">>, <<"changes_requested">>, <<"commented">>}

\* the author of the pull request is treated like any other reviewer
is_pr_owner_never(w, reviewed_user) == FALSE

\* pr_owner == reviewed_user
is_pr_owner(w, reviewed_user) == w.parent_committer = reviewed_user

manage_reviewed_by_label(w, review_state, action, reviewed_user) ==
    LET approved_lgtm_label ==
            IF reviewed_user \in approvers
            THEN APPROVED_BY_LABEL_PREFIX ELSE LGTM_BY_LABEL_PREFIX
        label_prefix ==
            IF review_state \in {<<"approved">>, LGTM_STR} THEN approved_lgtm_label
            ELSE IF review_state = <<"changes_requested">> THEN CHANGED_REQUESTED_BY_LABEL_PREFIX
            ELSE IF review_state = <<"commented">> THEN COMMENTED_BY_LABEL_PREFIX
            ELSE <<"">>
        label_to_remove ==
            IF review_state \in {<<"approved">>, LGTM_STR}
            THEN WithPrefix(CHANGED_REQUESTED_BY_LABEL_PREFIX, reviewed_user)
            ELSE IF review_state = <<"changes_requested">> THEN approved_lgtm_label
            ELSE <<"">>
        reviewer_label == WithPrefix(label_prefix, reviewed_user)
    IN  IF w.raised THEN w
        ELSE IF review_state \in {<<"approved">>, LGTM_STR} /\ is_pr_owner(w, reviewed_user) THEN w
        ELSE IF label_prefix = <<"">> THEN w
        ELSE IF action = ADD_STR
             THEN _remove_label(_add_label(w, reviewer_label), label_to_remove)
        ELSE IF action = DELETE_STR THEN _remove_label(w, reviewer_label)
        ELSE w

label_by_user_comment(w, user_requested_label, remove, reviewed_user) ==
    IF w.raised THEN w
    ELSE IF user_requested_label = LGTM_STR
         THEN manage_reviewed_by_label(w, LGTM_STR,
                                       IF remove THEN DELETE_STR ELSE ADD_STR, reviewed_user)
    ELSE IF remove THEN _remove_label(w, user_requested_label)
    ELSE _add_label(w, user_requested_label)

\* the built-in commands of user_commands that the model covers
available_commands == {COMMAND_CHECK_CAN_MERGE_STR}

\* a command line "/<cmd>" or "/<cmd> cancel"
Command(cmd, args) == [cmd |-> cmd, args |-> args]

user_commands(w, command, reviewed_user) ==
    LET _command == command.cmd
        remove == command.args = "cancel"
        w1 == IF _command = COMMAND_CHECK_CAN_MERGE_STR
              THEN check_if_can_be_merged(w) ELSE w
    IN  IF w.raised THEN w
        ELSE IF _command \notin (available_commands \cup USER_LABELS_DICT) THEN w
        ELSE IF _command = WIP_STR
             THEN (IF remove THEN _remove_label(w1, WIP_STR) ELSE _add_label(w1, WIP_STR))
        ELSE label_by_user_comment(w1, _command, remove, reviewed_user)

RECURSIVE process_comment_webhook_data(_, _, _)
\* for user_command in _user_commands: self.user_commands(...)
process_comment_webhook_data(w, _user_commands, user_login) ==
    IF _user_commands = <<>> THEN w
    ELSE process_comment_webhook_data(
            user_commands(w, Head(_user_commands), user_login),
            Tail(_user_commands), user_login)

process_pull_request_review_webhook_data(w, review_state, reviewed_user) ==
    manage_reviewed_by_label(w, review_state, ADD_STR, reviewed_user)

\* every check_run event runs the evaluator, the one for can-be-merged too
process_pull_request_check_run_webhook_data_no_skip(w, check_run_name) ==
    check_if_can_be_merged(w)

process_pull_request_check_run_webhook_data(w, check_run_name) ==
    IF check_run_name = CAN_BE_MERGED_STR THEN w
    ELSE check_if_can_be_merged(w)

\* str.lower() of a label name
Lower(label) == [i \in DOMAIN label |-> LowerSeg(label[i])]

\* labeled.split(prefix)[-1] for a label that starts with the prefix
AfterPrefix(label, prefix) == SubSeq(label, Len(prefix), Len(label))

\* process_pull_request_webhook_data, hook_action "labeled" or "unlabeled"
process_pull_request_webhook_data(w, hook_action, label_name) ==
    LET action_labeled == hook_action = "labeled"
        labeled == Lower(label_name)
        approved_reviewer ==
            IF StartsWith(labeled, APPROVED_BY_LABEL_PREFIX)
            THEN {AfterPrefix(labeled, APPROVED_BY_LABEL_PREFIX)} ELSE {}
        _reviewer ==
            IF StartsWith(labeled, CHANGED_REQUESTED_BY_LABEL_PREFIX)
            THEN {AfterPrefix(labeled, CHANGED_REQUESTED_BY_LABEL_PREFIX)}
            ELSE approved_reviewer
        is_verified == verified_job /\ labeled = VERIFIED_LABEL_STR
        _check_for_merge == (_reviewer \cap approvers # {}) \/ is_verified
        w1 == IF ~is_verified THEN w
              ELSE IF action_labeled THEN set_verify_check_success(w)
              ELSE set_verify_check_queued(w)
    IN  IF w.raised THEN w
        ELSE IF labeled = CAN_BE_MERGED_STR THEN w
        ELSE IF _check_for_merge THEN check_if_can_be_merged(w1)
        ELSE w1

\* the endpoint passes the exception on to the framework, which answers 500
process_webhook_unguarded(w) ==
    IF w.raised THEN [status |-> 500, body |-> "Internal Server Error"]
    ELSE [status |-> 200, body |-> "process success"]

\* app.py process_webhook: the try block returns "process success", the
\* except Exception block returns "Process failed"; Flask answers a returned
\* string with status 200
process_webhook(w) ==
    IF w.raised THEN [status |-> 200, body |-> "Process failed"]
    ELSE [status |-> 200, body |-> "process success"]

----------------------------------------------------------------------------
(* Size label *)

\* the thresholds read as upper limits that still belong to the smaller size
SizeNameInclusive(size) ==
    IF size <= 20 THEN "XS"
    ELSE IF size <= 50 THEN "S"
    ELSE IF size <= 100 THEN "M"
    ELSE IF size <= 300 THEN "L"
    ELSE IF size <= 500 THEN "XL"
    ELSE "XXL"

SizeName(size) ==
    IF size < 20 THEN "XS"
    ELSE IF size < 50 THEN "S"
    ELSE IF size < 100 THEN "M"
    ELSE IF size < 300 THEN "L"
    ELSE IF size < 500 THEN "XL"
    ELSE "XXL"

\* the size labels of the PullRequest object; exists_size_label[0] is the
\* first of them in the order the platform lists the labels
ExistsSizeLabel(w) == {l \in pull_request_labels_names(w) : StartsWithSizePrefix(l)}

add_size_label(w, size, first) ==
    LET size_label == SizeLabel(SizeName(size))
    IN  IF w.raised THEN w
        ELSE IF size_label \in pull_request_labels_names(w) THEN w
        ELSE IF ExistsSizeLabel(w) # {}
             THEN _add_label(_remove_label(w, first), size_label)
        ELSE _add_label(w, size_label)

----------------------------------------------------------------------------
(* Inputs *)

\* the comment bodies the model feeds in, each a list of command lines
CommentBodies ==
    {<<Command(c, a)>> :
        c \in available_commands \cup USER_LABELS_DICT, a \in {"", "cancel"}}
    \cup {<<Command(<<"foo">>, "")>>,
          <<Command(COMMAND_CHECK_CAN_MERGE_STR, ""), Command(COMMAND_CHECK_CAN_MERGE_STR, "")>>,
          <<Command(HOLD_LABEL_STR, ""), Command(COMMAND_CHECK_CAN_MERGE_STR, "")>>,
          <<Command(HOLD_LABEL_STR, "cancel"), Command(COMMAND_CHECK_CAN_MERGE_STR, "")>>,
          <<Command(HOLD_LABEL_STR, ""), Command(HOLD_LABEL_STR, "")>>,
          <<Command(HOLD_LABEL_STR, "cancel"), Command(HOLD_LABEL_STR, "cancel")>>,
          <<Command(LGTM_STR, ""), Command(LGTM_STR, "")>>,
          <<Command(LGTM_STR, "cancel"), Command(LGTM_STR, "cancel")>>}

\* additions + deletions of the pull request
Sizes == {10, 60, 400}

\* labels a person sets or clears by hand in the platform's UI
ManualLabels == {SizeLabel("XS"), SizeLabel("L"), HOLD_LABEL_STR}

\* the label "check-can-merge" that the command of that name leaves behind
CHECK_CAN_MERGE_LABEL == COMMAND_CHECK_CAN_MERGE_STR

\* labels and check-runs the pull request may carry when the model starts
InitLabelUniverse ==
    {VERIFIED_LABEL_STR, CAN_BE_MERGED_STR, CHECK_CAN_MERGE_LABEL,
     WithPrefix(APPROVED_BY_LABEL_PREFIX, alice)}

\* at the start every required check has succeeded, except at most one: tox in
\* any state, the branch-protection context failed, or verified still queued
InitCheckRuns ==
    {r \in [CheckNames -> CheckStates] :
        /\ r[CAN_BE_MERGED_STR] = "none"
        /\ r[<<"ci">>] \in {SUCCESS_STR, FAILURE_STR}
        /\ r[VERIFIED_LABEL_STR] \in {SUCCESS_STR, QUEUED_STR}
        /\ Cardinality({c \in CheckNames \ {CAN_BE_MERGED_STR} : r[c] # SUCCESS_STR}) <= 1}

----------------------------------------------------------------------------
(* State machine *)

InitPlatform ==
    /\ labels \in SUBSET InitLabelUniverse
    /\ checkRuns \in InitCheckRuns
    /\ merged = FALSE
    /\ mergeable = TRUE
    /\ parent_committer \in Users
    /\ mergeCalls = 0
    /\ comments = 0
    /\ events = 0
    /\ lastOp = "init"
    /\ evals = <<>>
    /\ raisedOut = FALSE
    /\ response = [status |-> 0, body |-> "none"]
    /\ pending = {}
    /\ dirty = FALSE
    /\ lastReview = [kind |-> "none", state |-> <<"">>, action |-> "", user |-> <<"">>,
                     before |-> {}]

Init == InitPlatform /\ procs = <<>>

\* process(): self.pull_request = self._get_pull_request()
GetPullRequest ==
    [labels |-> labels, checkRuns |-> checkRuns, merged |-> merged,
     mergeCalls |-> mergeCalls, comments |-> comments,
     parent_committer |-> parent_committer,
     prLabels |-> labels, prMergeable |-> mergeable, prMerged |-> merged,
     mergeRefused |-> FALSE,
     raised |-> FALSE, evals |-> <<>>]

\* the handler has run: its writes are on the platform
Handled(w, op) ==
    /\ labels' = w.labels
    /\ checkRuns' = w.checkRuns
    /\ merged' = w.merged
    /\ mergeCalls' = w.mergeCalls
    /\ comments' = w.comments
    /\ evals' = w.evals
    /\ raisedOut' = w.raised
    /\ lastOp' = op
    /\ events' = events + 1
    /\ response' = process_webhook(w)
    /\ UNCHANGED <<mergeable, parent_committer, aux>>

\* issue_comment event
IssueComment ==
    /\ events < MaxEvents
    /\ \E cmds \in CommentBodies :
       \E user \in IF \E i \in DOMAIN cmds : cmds[i].cmd = LGTM_STR
                   THEN Users ELSE {alice} :
          Handled(process_comment_webhook_data(GetPullRequest, cmds, user),
                  "issue_comment")

\* pull_request_review event, action submitted
PullRequestReview ==
    /\ events < MaxEvents
    /\ \E user \in Users, state \in ReviewStates :
          Handled(process_pull_request_review_webhook_data(GetPullRequest, state, user),
                  "pull_request_review")

\* check_run event
CheckRun ==
    /\ events < MaxEvents
    /\ \E name \in CheckNames :
          Handled(process_pull_request_check_run_webhook_data(GetPullRequest, name),
                  "check_run")

\* check_run event handled while the platform refuses to merge the pull request
CheckRunMergeRefused ==
    /\ events < MaxEvents
    /\ Handled(process_pull_request_check_run_webhook_data(
                   [GetPullRequest EXCEPT !.mergeRefused = TRUE], TOX_STR),
               "check_run_merge_refused")

\* add_size_label, as run for an opened or synchronize event
AddSizeLabel ==
    /\ events < MaxEvents
    /\ \E size \in Sizes :
       \E first \in IF ExistsSizeLabel(GetPullRequest) = {}
                    THEN {<<"">>} ELSE ExistsSizeLabel(GetPullRequest) :
          Handled(add_size_label(GetPullRequest, size, first), "add_size_label")

\* an external CI system reports a check-run for a branch-protection context
ExternalCheckRun ==
    /\ events < MaxEvents
    /\ \E c \in BranchContexts, st \in CheckStates \ {"none"} :
          checkRuns' = [checkRuns EXCEPT ![c] = st]
    /\ lastOp' = "external_check_run"
    /\ events' = events + 1
    /\ UNCHANGED <<labels, merged, mergeable, parent_committer, mergeCalls,
                   comments, evals, raisedOut, response, aux>>

\* a person sets or clears labels by hand, one or several at a time
ManualLabel ==
    /\ events < MaxEvents
    /\ \E ls \in (SUBSET ManualLabels) \ {{}} :
          labels' = (labels \ ls) \cup (ls \ labels)
    /\ lastOp' = "manual_label"
    /\ events' = events + 1
    /\ UNCHANGED <<checkRuns, merged, mergeable, parent_committer, mergeCalls,
                   comments, evals, raisedOut, response, aux>>

\* the base branch moves: the platform's mergeable flag of the pull request flips
MergeStateChange ==
    /\ events < MaxEvents
    /\ mergeable' = ~mergeable
    /\ lastOp' = "merge_state_change"
    /\ events' = events + 1
    /\ UNCHANGED <<labels, checkRuns, merged, parent_committer, mergeCalls,
                   comments, evals, raisedOut, response, aux>>

\* a person merges the pull request by hand
ManualMerge ==
    /\ events < MaxEvents
    /\ ~merged
    /\ merged' = TRUE
    /\ lastOp' = "manual_merge"
    /\ events' = events + 1
    /\ UNCHANGED <<labels, checkRuns, mergeable, parent_committer, mergeCalls,
                   comments, evals, raisedOut, response, aux>>

\* a delivery for a repository that is not in the config file: the
\* constructor raises RepositoryNotFoundError before any handler runs
RepositoryNotFound ==
    /\ events < MaxEvents
    /\ Handled([GetPullRequest EXCEPT !.raised = TRUE], "repository_not_found")

Next ==
    \/ IssueComment
    \/ PullRequestReview
    \/ CheckRun
    \/ AddSizeLabel
    \/ ExternalCheckRun
    \/ ManualLabel
    \/ MergeStateChange
    \/ ManualMerge
    \/ RepositoryNotFound

Spec == Init /\ [][Next]_vars

\* the same deliveries, and the platform may refuse a merge
NextRefused == Next \/ CheckRunMergeRefused

SpecRefused == Init /\ [][NextRefused]_vars

----------------------------------------------------------------------------
(* Deliveries of the opened / synchronize event that are handled at the     *)
(* same time (the same delivery sent twice).  Each handler runs              *)
(* process_opened_or_synchronize_pull_request: the first thread pool sets   *)
(* the checks to queued, the second runs _run_tox, then the results of the  *)
(* futures are collected and the owner is assigned.  A step is one call to  *)
(* the platform; procs.pc[h] is where handler h stands.                     *)

Handlers == {1, 2}

InitOpened ==
    /\ InitPlatform
    /\ procs = [pc |-> [h \in Handlers |-> "idle"],
                toxRaised |-> [h \in Handlers |-> FALSE],
                assigned |-> [h \in Handlers |-> FALSE],
                execs |-> 0]

\* what a step of handler h leaves alone
OpenedFrame ==
    UNCHANGED <<labels, merged, mergeable, parent_committer, mergeCalls, comments,
                events, evals, response, pending, dirty, lastReview>>

\* first pool: set_merge_check_queued, set_run_tox_check_queued
OpenedPrepare(h) ==
    /\ procs.pc[h] = "idle"
    /\ checkRuns' = set_run_tox_check_queued(set_merge_check_queued(GetPullRequest)).checkRuns
    /\ procs' = [procs EXCEPT !.pc[h] = "prepared"]
    /\ lastOp' = "opened_prepare"
    /\ UNCHANGED raisedOut
    /\ OpenedFrame

\* _run_tox: if self.is_check_run_in_progress(check_run=TOX_STR): return
RunToxCheck(h) ==
    /\ procs.pc[h] = "prepared"
    /\ procs' = [procs EXCEPT !.pc[h] =
                    IF is_check_run_in_progress(GetPullRequest, TOX_STR)
                    THEN "collect" ELSE "checked"]
    /\ lastOp' = "run_tox_check"
    /\ UNCHANGED <<checkRuns, raisedOut>>
    /\ OpenedFrame

\* _run_tox: set_run_tox_check_in_progress(), then the command starts
RunToxStart(h) ==
    /\ procs.pc[h] = "checked"
    /\ checkRuns' = set_run_tox_check_in_progress(GetPullRequest).checkRuns
    /\ procs' = [procs EXCEPT !.pc[h] = "running", !.execs = @ + 1]
    /\ lastOp' = "run_tox_start"
    /\ UNCHANGED raisedOut
    /\ OpenedFrame

\* _run_tox: the command has ended, rc decides success or failure
RunToxFinish(h) ==
    /\ procs.pc[h] = "running"
    /\ \E rc \in BOOLEAN :
          checkRuns' = IF rc THEN set_run_tox_check_success(GetPullRequest).checkRuns
                       ELSE set_run_tox_check_failure(GetPullRequest).checkRuns
    /\ procs' = [procs EXCEPT !.pc[h] = "collect"]
    /\ lastOp' = "run_tox_finish"
    /\ UNCHANGED raisedOut
    /\ OpenedFrame

\* _run_tox: _run_in_container raises (a platform call in it fails); the
\* future keeps the exception
RunToxRaise(h) ==
    /\ procs.pc[h] = "running"
    /\ procs' = [procs EXCEPT !.pc[h] = "collect", !.toxRaised[h] = TRUE]
    /\ lastOp' = "run_tox_raise"
    /\ UNCHANGED <<checkRuns, raisedOut>>
    /\ OpenedFrame

\* for result in as_completed(run_check_runs_futures): result.exception() is
\* logged, then result.result() raises the exception the future keeps
CollectResults(h) ==
    /\ procs.pc[h] = "collect"
    /\ procs' = [procs EXCEPT !.pc[h] = IF procs.toxRaised[h] THEN "failed" ELSE "assign"]
    /\ raisedOut' = procs.toxRaised[h]
    /\ lastOp' = "collect_results"
    /\ UNCHANGED checkRuns
    /\ OpenedFrame

\* self.pull_request.add_to_assignees()
AssignOwner(h) ==
    /\ procs.pc[h] = "assign"
    /\ procs' = [procs EXCEPT !.pc[h] = "done", !.assigned[h] = TRUE]
    /\ lastOp' = "add_to_assignees"
    /\ UNCHANGED <<checkRuns, raisedOut>>
    /\ OpenedFrame

NextOpened ==
    \E h \in Handlers :
        \/ OpenedPrepare(h)
        \/ RunToxCheck(h)
        \/ RunToxStart(h)
        \/ RunToxFinish(h)
        \/ RunToxRaise(h)
        \/ CollectResults(h)
        \/ AssignOwner(h)

SpecOpened == InitOpened /\ [][NextOpened]_vars

----------------------------------------------------------------------------
(* pull_request events with action opened and synchronize, one delivery at  *)
(* a time.  The functions the first thread pool of                          *)
(* process_opened_or_synchronize_pull_request runs write different labels   *)
(* and check runs and all read the PullRequest object fetched in process(), *)
(* so the order in which they are composed here does not matter.            *)

\* only the approval labels are taken
is_review_label_approved_only(label) == StartsWith(label, APPROVED_BY_LABEL_PREFIX)

\* the test of the synchronize branch on a label name
is_review_label(label) ==
    \/ StartsWith(label, APPROVED_BY_LABEL_PREFIX)
    \/ StartsWith(label, COMMENTED_BY_LABEL_PREFIX)
    \/ StartsWith(label, CHANGED_REQUESTED_BY_LABEL_PREFIX)
    \/ StartsWith(label, LGTM_BY_LABEL_PREFIX)

RECURSIVE remove_labels(_, _)
\* for _label in self.pull_request.labels: self._remove_label(label=_label_name)
remove_labels(w, names) ==
    IF names = {} THEN w
    ELSE LET _label_name == CHOOSE l \in names : TRUE
         IN  remove_labels(_remove_label(w, _label_name), names \ {_label_name})

\* self.parent_committer in self.auto_verified_and_merged_users; the login
\* of the user who pushed the commit (last_committer) is not looked at
trusted_committer(w, pusher) == w.parent_committer \in auto_verified_and_merged_users

_process_verified_for_update_or_new_pull_request(w, pusher) ==
    IF w.raised THEN w
    ELSE IF ~verified_job THEN w
    ELSE IF trusted_committer(w, pusher)
         THEN set_verify_check_success(_add_label(w, VERIFIED_LABEL_STR))
    ELSE set_verify_check_queued(_remove_label(w, VERIFIED_LABEL_STR))

MergeStates == {"unknown", "behind"}

\* additions + deletions of the pushes
PushSizes == {10, 400}

\* the has-conflicts label is on no pull request here, its removal finds nothing
label_pull_request_by_merge_state(w, merge_state) ==
    IF w.raised THEN w
    ELSE IF merge_state = "unknown" THEN w
    ELSE IF merge_state = "behind" THEN _add_label(w, NEEDS_REBASE_LABEL_STR)
    ELSE _remove_label(w, NEEDS_REBASE_LABEL_STR)

\* rc: the tox command succeeded
_run_tox(w, rc) ==
    IF w.raised THEN w
    ELSE IF ~tox THEN w
    ELSE IF is_check_run_in_progress(w, TOX_STR) THEN w
    ELSE IF rc THEN set_run_tox_check_success(set_run_tox_check_in_progress(w))
    ELSE set_run_tox_check_failure(set_run_tox_check_in_progress(w))

process_opened_or_synchronize_pull_request(w, pusher, merge_state, size, first, rc) ==
    LET w1 == _add_label(w, WithPrefix(BRANCH_LABEL_PREFIX, <<"main">>))
        w2 == label_pull_request_by_merge_state(w1, merge_state)
        w3 == set_run_tox_check_queued(set_merge_check_queued(w2))
        w4 == _process_verified_for_update_or_new_pull_request(w3, pusher)
        w5 == add_size_label(w4, size, first)
    IN  _run_tox(w5, rc)

\* hook_action == "synchronize"
process_pull_request_synchronize(w, pusher, merge_state, size, first, rc) ==
    process_opened_or_synchronize_pull_request(
        remove_labels(w, {l \in pull_request_labels_names(w) : is_review_label(l)}),
        pusher, merge_state, size, first, rc)

\* self.set_wip_label_based_on_title(); title_wip: the title starts with "wip:"
set_wip_label_based_on_title(w, title_wip) ==
    IF title_wip THEN _add_label(w, WIP_STR) ELSE _remove_label(w, WIP_STR)

\* hook_action == "opened"
process_pull_request_opened(w, merge_state, size, first, rc, title_wip) ==
    set_wip_label_based_on_title(
        process_opened_or_synchronize_pull_request(
            create_issue_comment(w), w.parent_committer, merge_state, size, first, rc),
        title_wip)

----------------------------------------------------------------------------
(* Deliveries for which _get_pull_request raises NoPullRequestError: no     *)
(* pull request number in the hook data resolves and there is no commit.    *)
(* process() catches the error and goes on with the push and check_run      *)
(* handlers; self.pull_request was never assigned.                          *)

\* _run_build_container(push=True, set_check=False, tag=tag_name) when the
\* object has no pull_request attribute.  rc is the result of the build
\* command.  The success branch asks hasattr(self, "pull_request"); the
\* failure branch reads self.pull_request, which raises AttributeError.
_run_build_container_for_tag(w, rc) ==
    IF rc THEN w ELSE [w EXCEPT !.raised = TRUE]

\* is_tag: hook_data["ref"] matches refs/tags/; container_release: the
\* repository is configured with build_and_push_container and container_release
process_push_webhook_data(w, is_tag, container_release, rc) ==
    IF is_tag /\ container_release THEN _run_build_container_for_tag(w, rc) ELSE w

\* process_pull_request_check_run_webhook_data without self.pull_request:
\* the open pull requests are searched for the head sha of the check run
check_run_by_head_sha(w, check_run_name, head_sha_found) ==
    IF check_run_name = CAN_BE_MERGED_STR THEN w
    ELSE IF head_sha_found THEN check_if_can_be_merged(w)
    ELSE w

EventsWithoutHandler == {"issue_comment", "pull_request", "pull_request_review", "status"}

\* the object after __init__ and the failed _get_pull_request:
\* parent_committer is still ""
NoPullRequest == [GetPullRequest EXCEPT !.parent_committer = <<"">>]

PushNoPullRequest ==
    /\ events < MaxEvents
    /\ \E is_tag \in BOOLEAN, container_release \in BOOLEAN, rc \in BOOLEAN :
          Handled(process_push_webhook_data(NoPullRequest, is_tag, container_release, rc),
                  "push")

CheckRunNoPullRequest ==
    /\ events < MaxEvents
    /\ \E name \in CheckNames, head_sha_found \in BOOLEAN :
          Handled(check_run_by_head_sha(NoPullRequest, name, head_sha_found),
                  "check_run_by_head_sha")

\* except NoPullRequestError: neither push nor check_run, nothing is called
OtherNoPullRequest ==
    /\ events < MaxEvents
    /\ \E github_event \in EventsWithoutHandler :
          Handled(NoPullRequest, "no_pull_request")

NextNoPR ==
    \/ PushNoPullRequest
    \/ CheckRunNoPullRequest
    \/ OtherNoPullRequest
    \/ ExternalCheckRun
    \/ ManualLabel

SpecNoPR == Init /\ [][NextNoPR]_vars

----------------------------------------------------------------------------
(* Reviews and /lgtm comments, one delivery at a time.  lastReview keeps    *)
(* what the last delivery was and the labels the pull request had before.   *)

HandledReview(w, op, review) ==
    /\ labels' = w.labels
    /\ checkRuns' = w.checkRuns
    /\ merged' = w.merged
    /\ mergeCalls' = w.mergeCalls
    /\ comments' = w.comments
    /\ evals' = w.evals
    /\ raisedOut' = w.raised
    /\ lastOp' = op
    /\ events' = events + 1
    /\ response' = process_webhook(w)
    /\ lastReview' = review
    /\ UNCHANGED <<mergeable, parent_committer, pending, dirty, procs>>

\* the users who review: those of Users and one with the longest login
Reviewers == Users \cup {long_login}

\* pull_request_review event, action submitted
ReviewSubmitted ==
    /\ events < MaxReviews
    /\ \E user \in Reviewers, state \in ReviewStates :
          HandledReview(process_pull_request_review_webhook_data(GetPullRequest, state, user),
                        "pull_request_review",
                        [kind |-> "review", state |-> state, action |-> ADD_STR,
                         user |-> user, before |-> labels])

\* issue_comment event with the body "/lgtm" or "/lgtm cancel"
LgtmComment ==
    /\ events < MaxReviews
    /\ \E user \in Reviewers, args \in {"", "cancel"} :
          HandledReview(process_comment_webhook_data(GetPullRequest,
                                                     <<Command(LGTM_STR, args)>>, user),
                        "issue_comment",
                        [kind |-> "comment", state |-> LGTM_STR,
                         action |-> IF args = "cancel" THEN DELETE_STR ELSE ADD_STR,
                         user |-> user, before |-> labels])

NextReview ==
    \/ ReviewSubmitted
    \/ LgtmComment

SpecReview == Init /\ [][NextReview]_vars

\* a commit is pushed to the pull request by any user
Synchronize ==
    /\ events < MaxPushes
    /\ \E pusher \in Users, merge_state \in MergeStates, size \in PushSizes, rc \in BOOLEAN :
       \E first \in IF ExistsSizeLabel(GetPullRequest) = {}
                    THEN {<<"">>} ELSE ExistsSizeLabel(GetPullRequest) :
          HandledReview(process_pull_request_synchronize(GetPullRequest, pusher, merge_state,
                                                         size, first, rc),
                        "synchronize",
                        [kind |-> "synchronize", state |-> <<"">>, action |-> "",
                         user |-> pusher, before |-> labels])

\* the pull request is opened by its author
Opened ==
    /\ events = 0
    /\ \E merge_state \in MergeStates, size \in PushSizes, rc \in BOOLEAN, title_wip \in BOOLEAN :
          HandledReview(process_pull_request_opened(GetPullRequest, merge_state, size,
                                                    <<"">>, rc, title_wip),
                        "opened",
                        [kind |-> "opened", state |-> <<"">>, action |-> "",
                         user |-> parent_committer, before |-> labels])

\* reviews, then pushes
NextSync ==
    \/ ReviewSubmitted
    \/ Opened
    \/ Synchronize

SpecSync == Init /\ [][NextSync]_vars

----------------------------------------------------------------------------
(* One issue_comment delivery whose body holds one or two command lines.    *)
(* lastReview keeps the body, the commenter and the platform state the      *)
(* handler found.                                                           *)

MaxComments == 1

\* the command lines a comment body is made of: "/<cmd>" and "/<cmd> cancel"
\* for lgtm and hold, "/check-can-merge", and "/foo", which no list holds
CommandLines ==
    {Command(c, a) : c \in {LGTM_STR, HOLD_LABEL_STR}, a \in {"", "cancel"}}
    \cup {Command(COMMAND_CHECK_CAN_MERGE_STR, ""), Command(<<"foo">>, "")}

\* body.strip().splitlines(), the lines that start with "/"
CommandBodies ==
    {<<c>> : c \in CommandLines} \cup {<<c, d>> : c \in CommandLines, d \in CommandLines}

\* issue_comment event, action created
CommentCommands ==
    /\ events < MaxComments
    /\ \E body \in CommandBodies, user \in Users :
          HandledReview(process_comment_webhook_data(GetPullRequest, body, user),
                        "issue_comment",
                        [kind |-> "commands", state |-> body, action |-> "",
                         user |-> user, before |-> Platform(GetPullRequest)])

NextComment == CommentCommands

SpecComment == Init /\ [][NextComment]_vars

----------------------------------------------------------------------------
(* A label command and its cancel from one user: both lines in one comment, *)
(* or one comment each.  procs keeps the labels found before the first.     *)

\* the label "/x" puts on the pull request for the user
CommandLabel(x, user) ==
    IF x = LGTM_STR
    THEN WithPrefix(IF user \in approvers THEN APPROVED_BY_LABEL_PREFIX
                    ELSE LGTM_BY_LABEL_PREFIX, user)
    ELSE x

\* the labels a pull request under review may carry before the commands
RoundTripLabels ==
    {VERIFIED_LABEL_STR, HOLD_LABEL_STR,
     WithPrefix(APPROVED_BY_LABEL_PREFIX, alice),
     WithPrefix(CHANGED_REQUESTED_BY_LABEL_PREFIX, alice)}

InitRoundTrip ==
    /\ labels \in SUBSET RoundTripLabels
    /\ checkRuns \in InitCheckRuns
    /\ merged = FALSE
    /\ mergeable = TRUE
    /\ parent_committer \in Users
    /\ mergeCalls = 0
    /\ comments = 0
    /\ events = 0
    /\ lastOp = "init"
    /\ evals = <<>>
    /\ raisedOut = FALSE
    /\ response = [status |-> 0, body |-> "none"]
    /\ pending = {}
    /\ dirty = FALSE
    /\ lastReview = [kind |-> "none", state |-> <<"">>, action |-> "", user |-> <<"">>,
                     before |-> {}]
    /\ procs = [stage |-> "idle", x |-> <<"">>, user |-> <<"">>, before |-> {}]

HandledRoundTrip(w, op, stage, x, user, before) ==
    /\ labels' = w.labels
    /\ checkRuns' = w.checkRuns
    /\ merged' = w.merged
    /\ mergeCalls' = w.mergeCalls
    /\ comments' = w.comments
    /\ evals' = w.evals
    /\ raisedOut' = w.raised
    /\ lastOp' = op
    /\ events' = events + 1
    /\ response' = process_webhook(w)
    /\ procs' = [stage |-> stage, x |-> x, user |-> user, before |-> before]
    /\ UNCHANGED <<mergeable, parent_committer, pending, dirty, lastReview>>

\* issue_comment event with the body "/x" and "/x cancel" on two lines
CommandAndCancel ==
    /\ procs.stage = "idle"
    /\ \E x \in USER_LABELS_DICT, user \in Users :
          HandledRoundTrip(
              process_comment_webhook_data(GetPullRequest,
                  <<Command(x, ""), Command(x, "cancel")>>, user),
              "command_and_cancel", "done", x, user, labels)

\* issue_comment event with the body "/x"
CommandComment ==
    /\ procs.stage = "idle"
    /\ \E x \in USER_LABELS_DICT, user \in Users :
          HandledRoundTrip(
              process_comment_webhook_data(GetPullRequest, <<Command(x, "")>>, user),
              "command", "added", x, user, labels)

\* issue_comment event with the body "/x cancel", from the same user
CancelComment ==
    /\ procs.stage = "added"
    /\ HandledRoundTrip(
           process_comment_webhook_data(GetPullRequest,
               <<Command(procs.x, "cancel")>>, procs.user),
           "cancel", "done", procs.x, procs.user, procs.before)

NextRoundTrip ==
    \/ CommandAndCancel
    \/ CommandComment
    \/ CancelComment

SpecRoundTrip == InitRoundTrip /\ [][NextRoundTrip]_vars

----------------------------------------------------------------------------
(* add_size_label on its own, for sizes on both sides of every threshold.   *)
(* lastReview keeps the size and the platform state the handler found.      *)

MaxSizings == 2

\* additions + deletions
ThresholdSizes == {0, 19, 20, 49, 50, 99, 100, 299, 300, 499, 500, 501}

SizeLabelDelivery ==
    /\ events < MaxSizings
    /\ \E size \in ThresholdSizes :
       \E first \in IF ExistsSizeLabel(GetPullRequest) = {}
                    THEN {<<"">>} ELSE ExistsSizeLabel(GetPullRequest) :
          HandledReview(add_size_label(GetPullRequest, size, first),
                        "add_size_label",
                        [kind |-> "size", state |-> <<"">>, action |-> "",
                         user |-> <<"">>, before |-> Platform(GetPullRequest),
                         size |-> size])

NextSize == SizeLabelDelivery

SpecSize == Init /\ [][NextSize]_vars

----------------------------------------------------------------------------
(* One call of _add_label or _remove_label, step by step: the call, the     *)
(* remote write, the samples of wait_for_label, the return.  procs holds    *)
(* the call: its label, the PullRequest object's labels, whether it wrote   *)
(* to the platform, how often it sampled, and what wait_for_label answered. *)

MaxLabelCalls == 2

\* TimeoutSampler(wait_timeout=30, sleep=5, ...)
wait_timeout == 30
sleep == 5

\* labels handed to _add_label / _remove_label: static ones, dynamic ones,
\* and one that is longer than 49 characters
LabelArguments ==
    {HOLD_LABEL_STR, CAN_BE_MERGED_STR, SizeLabel("XS"),
     WithPrefix(APPROVED_BY_LABEL_PREFIX, alice),
     WithPrefix(BRANCH_LABEL_PREFIX, <<"main">>),
     WithPrefix(CHANGED_REQUESTED_BY_LABEL_PREFIX, long_login)}

NoCall ==
    [pc |-> "idle", op |-> "none", label |-> <<"">>, prLabels |-> {},
     wrote |-> FALSE, samples |-> 0, elapsed |-> 0, answer |-> "none"]

InitLabel == InitPlatform /\ procs = NoCall

LabelFrame ==
    UNCHANGED <<checkRuns, merged, mergeable, parent_committer, mergeCalls, comments,
                evals, raisedOut, response, pending, dirty, lastReview>>

\* a handler, holding the pull request it fetched, calls _add_label or _remove_label
LabelCall ==
    /\ procs.pc = "idle"
    /\ events < MaxLabelCalls
    /\ \E op \in {"_add_label", "_remove_label"}, label \in LabelArguments :
          procs' = [NoCall EXCEPT !.pc = "called", !.op = op, !.label = label,
                                  !.prLabels = labels]
    /\ events' = events + 1
    /\ lastOp' = "label_call"
    /\ UNCHANGED labels
    /\ LabelFrame

\* the call up to its remote write: it returns early, or writes and returns
\* (static label), or writes and goes on to wait_for_label
LabelWrite ==
    /\ procs.pc = "called"
    /\ LET w == [GetPullRequest EXCEPT !.prLabels = procs.prLabels]
           label == procs.label
       IN  IF procs.op = "_remove_label"
           THEN IF label_exists_in_pull_request(w, label)
                THEN /\ labels' = remove_from_labels(w, label).labels
                     /\ procs' = [procs EXCEPT !.pc = "polling", !.wrote = TRUE]
                ELSE /\ procs' = [procs EXCEPT !.pc = "returned", !.answer = "False"]
                     /\ UNCHANGED labels
           ELSE IF StrLen(label) > 49 \/ label_exists_in_pull_request(w, label)
                THEN /\ procs' = [procs EXCEPT !.pc = "returned"]
                     /\ UNCHANGED labels
                ELSE /\ labels' = add_to_labels(w, label).labels
                     /\ procs' = [procs EXCEPT
                                    !.pc = IF label \in STATIC_LABELS_DICT
                                           THEN "returned" ELSE "polling",
                                    !.wrote = TRUE]
    /\ lastOp' = "label_write"
    /\ UNCHANGED events
    /\ LabelFrame

\* one round of the TimeoutSampler loop in wait_for_label: a sample that
\* matches answers True; past wait_timeout TimeoutExpiredError answers False
WaitForLabelSample ==
    /\ procs.pc = "polling"
    /\ LET w == [GetPullRequest EXCEPT !.prLabels = procs.prLabels]
           exists == procs.op = "_add_label"
       IN  IF procs.elapsed >= wait_timeout
           THEN procs' = [procs EXCEPT !.pc = "returned", !.answer = "False"]
           ELSE IF wait_for_label(w, procs.label, exists)
           THEN procs' = [procs EXCEPT !.pc = "returned", !.answer = "True",
                                       !.samples = @ + 1]
           ELSE procs' = [procs EXCEPT !.samples = @ + 1, !.elapsed = @ + sleep]
    /\ lastOp' = "wait_for_label"
    /\ UNCHANGED <<labels, events>>
    /\ LabelFrame

\* the call is over
LabelReturn ==
    /\ procs.pc = "returned"
    /\ procs' = [procs EXCEPT !.pc = "idle"]
    /\ lastOp' = "label_return"
    /\ UNCHANGED <<labels, events>>
    /\ LabelFrame

NextLabel ==
    \/ LabelCall
    \/ LabelWrite
    \/ WaitForLabelSample
    \/ LabelReturn

SpecLabel == InitLabel /\ [][NextLabel]_vars

----------------------------------------------------------------------------
(* get_check_run_text, on the lengths of its strings.  procs holds the      *)
(* lengths of err and out and, once the function has run, of its result.    *)

\* len(err), len(out): short outputs and outputs around the limit
TextLengths ==
    {0, 1, 10, 32762, 32763, 32767, 65520, 65524, 65525, 65526, 65530,
     65534, 65535, 70000}

\* len(f"```\n{err}\n\n{out}\n```")
FencedLen(err, out) == 4 + err + 2 + out + 4

\* len(s[:k]) for a string of length n
SliceLen(n, k) == IF n > k THEN k ELSE n

get_check_run_text(err, out) ==
    LET total_len == err + out
    IN  IF total_len > 65534
        THEN SliceLen(FencedLen(err, out), 65534)
        ELSE FencedLen(err, out)

InitText ==
    /\ labels = {}
    /\ checkRuns = [c \in CheckNames |-> "none"]
    /\ merged = FALSE
    /\ mergeable = TRUE
    /\ parent_committer = alice
    /\ mergeCalls = 0
    /\ comments = 0
    /\ events = 0
    /\ lastOp = "init"
    /\ evals = <<>>
    /\ raisedOut = FALSE
    /\ response = [status |-> 0, body |-> "none"]
    /\ pending = {}
    /\ dirty = FALSE
    /\ lastReview = [kind |-> "none", state |-> <<"">>, action |-> "", user |-> <<"">>,
                     before |-> {}]
    /\ procs \in [err : TextLengths, out : TextLengths, text : {-1}]

\* a check has ended with err and out; the text of its check-run is built
CheckRunText ==
    /\ procs.text = -1
    /\ procs' = [procs EXCEPT !.text = get_check_run_text(procs.err, procs.out)]
    /\ lastOp' = "get_check_run_text"
    /\ UNCHANGED <<labels, checkRuns, merged, mergeable, parent_committer, mergeCalls,
                   comments, events, evals, raisedOut, response, pending, dirty,
                   lastReview>>

NextText == CheckRunText

SpecText == InitText /\ [][NextText]_vars

----------------------------------------------------------------------------
(* The checks of one opened / synchronize event, thread by thread, in a     *)
(* repository that has tox, pre-commit, pypi and the container build        *)
(* configured, and "/retest <check>" comments on such a repository.        *)
(* A thread is <<origin, check>>.  procs holds the check-runs of these      *)
(* checks on the head commit (status), where each thread stands (pc), what  *)
(* its command returned (rc), the conclusion it reported (reported),        *)
(* whether it found the check in progress (skipped), how often the command  *)
(* of a check was started (execs), and the statuses the event wrote for     *)
(* each check, in order (hist).                                             *)

MaxRetests == 1

RunChecks == {TOX_STR, PRE_COMMIT_STR, PYTHON_MODULE_INSTALL_STR, BUILD_CONTAINER_STR}

Threads == {"opened", "retest"} \X RunChecks

\* the platform refuses a check-run whose output text is over its limit
create_check_run_accepts(text) == text <= 65535

\* the lengths of err and out of a command: a short output, and one whose
\* text get_check_run_text leaves over the limit
CommandOutputs == {<<10, 100>>, <<0, 65526>>}

\* the in_progress guard of _run_build_container
build_container_in_progress(w, pull_request, set_check, _is_merged) ==
    pull_request /\ set_check
        /\ is_check_run_in_progress(w, BUILD_CONTAINER_STR) /\ ~_is_merged

\* the in_progress guard at the head of _run_tox, _run_pre_commit,
\* _run_install_python_module and _run_build_container()
check_in_progress(w, c) ==
    IF c = BUILD_CONTAINER_STR
    THEN build_container_in_progress(w, TRUE, TRUE, FALSE)
    ELSE is_check_run_in_progress(w, c)

InitChecks ==
    /\ labels = {}
    /\ checkRuns = [c \in CheckNames |-> "none"]
    /\ merged = FALSE
    /\ mergeable = TRUE
    /\ parent_committer = alice
    /\ mergeCalls = 0
    /\ comments = 0
    /\ events = 0
    /\ lastOp = "init"
    /\ evals = <<>>
    /\ raisedOut = FALSE
    /\ response = [status |-> 0, body |-> "none"]
    /\ pending = {}
    /\ dirty = FALSE
    /\ lastReview = [kind |-> "none", state |-> <<"">>, action |-> "", user |-> <<"">>,
                     before |-> {}]
    /\ \E st \in [RunChecks -> {"none", IN_PROGRESS_STR}] :
          /\ Cardinality({c \in RunChecks : st[c] = IN_PROGRESS_STR}) <= 1
          /\ procs = [phase |-> "init", status |-> st,
                      pc |-> [t \in Threads |-> "idle"],
                      rc |-> [t \in Threads |-> "none"],
                      reported |-> [t \in Threads |-> "none"],
                      skipped |-> [t \in Threads |-> FALSE],
                      execs |-> [c \in RunChecks |-> 0],
                      hist |-> [c \in RunChecks |-> <<>>],
                      retests |-> 0]

ChecksFrame ==
    UNCHANGED <<labels, checkRuns, merged, mergeable, parent_committer, mergeCalls,
                comments, events, evals, response, pending, dirty, lastReview>>

\* the first pool has ended: every check is queued; the second pool starts
ChecksPrepare ==
    /\ procs.phase = "init"
    /\ procs' = [procs EXCEPT
                    !.phase = "running",
                    !.status = [c \in RunChecks |-> QUEUED_STR],
                    !.hist = [c \in RunChecks |-> <<QUEUED_STR>>],
                    !.pc = [t \in Threads |->
                              IF t[1] = "opened" THEN "ready" ELSE procs.pc[t]]]
    /\ lastOp' = "checks_prepare"
    /\ UNCHANGED raisedOut
    /\ ChecksFrame

\* process_retest_command: a "/retest <check>" comment calls the check's function
RetestCommand(c) ==
    /\ procs.retests < MaxRetests
    /\ procs.pc[<<"retest", c>>] = "idle"
    /\ procs' = [procs EXCEPT !.pc[<<"retest", c>>] = "ready", !.retests = @ + 1]
    /\ lastOp' = "retest"
    /\ UNCHANGED raisedOut
    /\ ChecksFrame

\* if self.is_check_run_in_progress(check_run=...): return
ThreadGuard(t) ==
    /\ procs.pc[t] = "ready"
    /\ LET w == [checkRuns |-> procs.status]
       IN  IF check_in_progress(w, t[2])
           THEN procs' = [procs EXCEPT !.pc[t] = "done", !.skipped[t] = TRUE]
           ELSE procs' = [procs EXCEPT !.pc[t] = "guarded"]
    /\ lastOp' = "thread_guard"
    /\ UNCHANGED raisedOut
    /\ ChecksFrame

\* set_..._in_progress(), then _run_in_container starts the command
ThreadStart(t) ==
    /\ procs.pc[t] = "guarded"
    /\ procs' = [procs EXCEPT
                    !.pc[t] = "command",
                    !.status[t[2]] = IN_PROGRESS_STR,
                    !.execs[t[2]] = @ + 1,
                    !.hist[t[2]] = IF t[1] = "opened" THEN Append(@, IN_PROGRESS_STR) ELSE @]
    /\ lastOp' = "thread_start"
    /\ UNCHANGED raisedOut
    /\ ChecksFrame

\* the command has returned rc, out, err; the conclusion is reported with the
\* text of get_check_run_text.  When the platform refuses the text,
\* set_check_run_status tries once more with conclusion failure and the same
\* text, and that exception leaves the check's function
ThreadFinish(t) ==
    /\ procs.pc[t] = "command"
    /\ \E rc \in BOOLEAN, o \in CommandOutputs :
          LET conclusion == IF rc THEN SUCCESS_STR ELSE FAILURE_STR
              rcs == IF rc THEN "ok" ELSE "fail"
          IN  IF create_check_run_accepts(get_check_run_text(o[1], o[2]))
              THEN procs' = [procs EXCEPT
                                !.pc[t] = "done", !.rc[t] = rcs,
                                !.reported[t] = conclusion,
                                !.status[t[2]] = conclusion,
                                !.hist[t[2]] = IF t[1] = "opened"
                                               THEN Append(@, conclusion) ELSE @]
              ELSE procs' = [procs EXCEPT !.pc[t] = "raised", !.rc[t] = rcs]
    /\ lastOp' = "thread_finish"
    /\ UNCHANGED raisedOut
    /\ ChecksFrame

\* the second pool has ended; for result in as_completed(...): result.result()
ChecksCollect ==
    /\ procs.phase = "running"
    /\ \A c \in RunChecks : procs.pc[<<"opened", c>>] \in {"done", "raised"}
    /\ procs' = [procs EXCEPT !.phase = "collected"]
    /\ raisedOut' = \E c \in RunChecks : procs.pc[<<"opened", c>>] = "raised"
    /\ lastOp' = "checks_collect"
    /\ ChecksFrame

NextChecks ==
    \/ ChecksPrepare
    \/ \E c \in RunChecks : ThreadGuard(<<"opened", c>>)
    \/ \E c \in RunChecks : ThreadStart(<<"opened", c>>)
    \/ \E c \in RunChecks : ThreadFinish(<<"opened", c>>)
    \/ ChecksCollect

SpecChecks == InitChecks /\ [][NextChecks]_vars

\* the threads of the pools go on until they end
SpecChecksFair == SpecChecks /\ WF_vars(NextChecks)

\* "/retest <check>" comments on a head commit whose checks are in any state
InitRetest ==
    /\ labels = {}
    /\ checkRuns = [c \in CheckNames |-> "none"]
    /\ merged = FALSE
    /\ mergeable = TRUE
    /\ parent_committer = alice
    /\ mergeCalls = 0
    /\ comments = 0
    /\ events = 0
    /\ lastOp = "init"
    /\ evals = <<>>
    /\ raisedOut = FALSE
    /\ response = [status |-> 0, body |-> "none"]
    /\ pending = {}
    /\ dirty = FALSE
    /\ lastReview = [kind |-> "none", state |-> <<"">>, action |-> "", user |-> <<"">>,
                     before |-> {}]
    /\ \E st \in [RunChecks -> CheckStates \ {"none"}] :
          procs = [phase |-> "init", status |-> st,
                   pc |-> [t \in Threads |-> "idle"],
                   rc |-> [t \in Threads |-> "none"],
                   reported |-> [t \in Threads |-> "none"],
                   skipped |-> [t \in Threads |-> FALSE],
                   execs |-> [c \in RunChecks |-> 0],
                   hist |-> [c \in RunChecks |-> <<>>],
                   retests |-> 0]

NextRetest ==
    \/ \E c \in RunChecks : RetestCommand(c)
    \/ \E c \in RunChecks : ThreadGuard(<<"retest", c>>)
    \/ \E c \in RunChecks : ThreadStart(<<"retest", c>>)
    \/ \E c \in RunChecks : ThreadFinish(<<"retest", c>>)

SpecRetest == InitRetest /\ [][NextRetest]_vars

----------------------------------------------------------------------------
(* The first pool of process_opened_or_synchronize_pull_request: the tasks  *)
(* run in threads on one PullRequest object, so the platform calls of       *)
(* different tasks interleave in any order.  procs.status holds the         *)
(* check-runs of the new head commit, procs.pc the calls each task made.    *)

\* a check-run name no other task writes
verify_check_run_shared == CAN_BE_MERGED_STR

\* set_verify_check_queued, set_verify_check_success: check_run=VERIFIED_LABEL_STR
verify_check_run == VERIFIED_LABEL_STR

\* the tasks in the order they are submitted
PrepareTasks ==
    <<"assign_reviewers", "branch", "merge_state", "merge_check", "tox", "pre_commit",
      "python_module", "container", "verified", "size">>

PrepareChecks == RunChecks \cup {CAN_BE_MERGED_STR, VERIFIED_LABEL_STR}

LabelCallOf(op, name) == [op |-> op, name |-> name, st |-> ""]

CheckCallOf(name, st) == [op |-> "check", name |-> name, st |-> st]

\* the platform calls a task makes, from the PullRequest object it reads
PrepareCalls(t, w, merge_state, size) ==
    CASE t = "assign_reviewers" -> <<>>
      [] t = "branch" ->
            <<LabelCallOf("add", WithPrefix(BRANCH_LABEL_PREFIX, <<"main">>))>>
      [] t = "merge_state" ->
            IF merge_state = "unknown" THEN <<>>
            ELSE IF merge_state = "behind"
                 THEN <<LabelCallOf("add", NEEDS_REBASE_LABEL_STR)>>
            ELSE <<LabelCallOf("remove", NEEDS_REBASE_LABEL_STR)>>
      [] t = "merge_check" -> <<CheckCallOf(CAN_BE_MERGED_STR, QUEUED_STR)>>
      [] t = "tox" -> <<CheckCallOf(TOX_STR, QUEUED_STR)>>
      [] t = "pre_commit" -> <<CheckCallOf(PRE_COMMIT_STR, QUEUED_STR)>>
      [] t = "python_module" -> <<CheckCallOf(PYTHON_MODULE_INSTALL_STR, QUEUED_STR)>>
      [] t = "container" -> <<CheckCallOf(BUILD_CONTAINER_STR, QUEUED_STR)>>
      [] t = "verified" ->
            IF ~verified_job THEN <<>>
            ELSE IF trusted_committer(w, w.parent_committer)
                 THEN <<LabelCallOf("add", VERIFIED_LABEL_STR),
                        CheckCallOf(verify_check_run, SUCCESS_STR)>>
            ELSE <<LabelCallOf("remove", VERIFIED_LABEL_STR),
                   CheckCallOf(verify_check_run, QUEUED_STR)>>
      [] t = "size" ->
            LET size_label == SizeLabel(SizeName(size))
            IN  IF size_label \in pull_request_labels_names(w) THEN <<>>
                ELSE IF ExistsSizeLabel(w) # {}
                     THEN <<LabelCallOf("remove", CHOOSE l \in ExistsSizeLabel(w) : TRUE),
                            LabelCallOf("add", size_label)>>
                ELSE <<LabelCallOf("add", size_label)>>

\* one platform call of a task
PrepareApply(w, call) ==
    CASE call.op = "add" -> _add_label(w, call.name)
      [] call.op = "remove" -> _remove_label(w, call.name)
      [] call.op = "check" -> set_check_run_status(w, call.name, call.st)

PrepareLabels == {VERIFIED_LABEL_STR, NEEDS_REBASE_LABEL_STR, SizeLabel("M")}

InitPrepare ==
    /\ labels \in SUBSET PrepareLabels
    /\ checkRuns = [c \in CheckNames |-> IF c = CAN_BE_MERGED_STR THEN "none"
                                          ELSE SUCCESS_STR]
    /\ merged = FALSE
    /\ mergeable = TRUE
    /\ parent_committer \in {alice, carol}
    /\ mergeCalls = 0
    /\ comments = 0
    /\ events = 0
    /\ lastOp = "init"
    /\ evals = <<>>
    /\ raisedOut = FALSE
    /\ response = [status |-> 0, body |-> "none"]
    /\ pending = {}
    /\ dirty = FALSE
    /\ lastReview = [kind |-> "none", state |-> <<"">>, action |-> "", user |-> <<"">>,
                     before |-> {}]
    /\ \E merge_state \in MergeStates \cup {"clean"}, size \in {400} :
          procs = [phase |-> "pool", prLabels |-> labels, before |-> labels,
                   merge_state |-> merge_state, size |-> size,
                   status |-> [c \in PrepareChecks |-> "none"],
                   pc |-> [i \in DOMAIN PrepareTasks |-> 0],
                   reordered |-> FALSE]

\* the PullRequest object of the handler and the platform as it is now
PreparePullRequest ==
    [GetPullRequest EXCEPT !.prLabels = procs.prLabels, !.checkRuns = procs.status]

TaskCalls(i) ==
    PrepareCalls(PrepareTasks[i], PreparePullRequest, procs.merge_state, procs.size)

\* the next platform call of task i; an exception ends the task
PrepareCall(i) ==
    /\ procs.phase = "pool"
    /\ procs.pc[i] < Len(TaskCalls(i))
    /\ LET w == PrepareApply(PreparePullRequest, TaskCalls(i)[procs.pc[i] + 1])
       IN  /\ labels' = w.labels
           /\ raisedOut' = (raisedOut \/ w.raised)
           /\ procs' = [procs EXCEPT
                          !.status = w.checkRuns,
                          !.pc[i] = IF w.raised THEN Len(TaskCalls(i)) ELSE @ + 1,
                          !.reordered = @ \/ \E j \in DOMAIN PrepareTasks :
                                                 j > i /\ procs.pc[j] > 0]
    /\ lastOp' = "prepare_call"
    /\ UNCHANGED <<checkRuns, merged, mergeable, parent_committer, mergeCalls, comments,
                   events, evals, response, pending, dirty, lastReview>>

\* the with block ends when every task has returned
PrepareJoin ==
    /\ procs.phase = "pool"
    /\ \A i \in DOMAIN PrepareTasks : procs.pc[i] = Len(TaskCalls(i))
    /\ procs' = [procs EXCEPT !.phase = "joined"]
    /\ lastOp' = "prepare_join"
    /\ UNCHANGED <<labels, checkRuns, merged, mergeable, parent_committer, mergeCalls,
                   comments, events, evals, raisedOut, response, pending, dirty,
                   lastReview>>

NextPrepare ==
    \/ \E i \in DOMAIN PrepareTasks : PrepareCall(i)
    \/ PrepareJoin

SpecPrepare == InitPrepare /\ [][NextPrepare]_vars

RECURSIVE RunCalls(_, _)
\* the calls of one task, one after the other
RunCalls(w, calls) ==
    IF calls = <<>> \/ w.raised THEN w
    ELSE RunCalls(PrepareApply(w, Head(calls)), Tail(calls))

RECURSIVE RunTasks(_, _)
\* the tasks one after the other, in the order they were submitted
RunTasks(w, i) ==
    IF i > Len(PrepareTasks) THEN w
    ELSE RunTasks([RunCalls(w, PrepareCalls(PrepareTasks[i], w, procs.merge_state,
                                            procs.size))
                     EXCEPT !.raised = FALSE], i + 1)

\* the names a task writes: labels and check-runs are told apart
WrittenNames(i) ==
    {<<TaskCalls(i)[k].op = "check", TaskCalls(i)[k].name>> : k \in DOMAIN TaskCalls(i)}

----------------------------------------------------------------------------
(* "/cherry-pick <branches>" comments and the closed event.  procs holds    *)
(* how often a cherry-pick to each branch was run (picks) and whether the   *)
(* pull request is open, merged or closed (pr); lastReview keeps the        *)
(* delivery and what the handler found.                                     *)

MaxCherryEvents == 3

CHERRY_PICK_LABEL_PREFIX == <<"cherry", "pick", "">>

\* branch names: one that exists, one that does not, and an existing one of
\* 40 characters
v1 == <<"v1">>
ghost == <<"ghost">>
long_branch == <<"release0123456789012345678901234567890123">>

Targets == {v1, ghost, long_branch}

\* the branches repository.get_branch finds
Branches == {v1, long_branch}

\* all orders in which the elements of a set can be listed
Orders(S) ==
    {q \in [1..Cardinality(S) -> S] : \A i, j \in DOMAIN q : i # j => q[i] # q[j]}

\* what a handler finds, with the record of the cherry-picks run so far
GetPullRequestPicks == GetPullRequest @@ [picks |-> procs.picks]

\* is_branch_exists: repository.get_branch raises for a branch that is not there
cherry_pick(w, target_branch) ==
    IF w.raised THEN w
    ELSE IF target_branch \notin Branches THEN [w EXCEPT !.raised = TRUE]
    ELSE create_issue_comment([w EXCEPT !.picks[target_branch] = @ + 1])

RECURSIVE cherry_pick_each(_, _)
cherry_pick_each(w, targets) ==
    IF targets = <<>> THEN w
    ELSE cherry_pick_each(cherry_pick(w, Head(targets)), Tail(targets))

RECURSIVE add_cp_labels(_, _)
\* for _cp_label in cp_labels: self._add_label(label=_cp_label)
add_cp_labels(w, targets) ==
    IF targets = <<>> THEN w
    ELSE add_cp_labels(_add_label(w, WithPrefix(CHERRY_PICK_LABEL_PREFIX, Head(targets))),
                       Tail(targets))

\* _exits_target_branches.add(_target_branch), after the try / except
exits_target_branches(_target_branches) ==
    {_target_branches[i] : i \in DOMAIN _target_branches}

\* order: the order in which the set _exits_target_branches is iterated
process_cherry_pick_command(w, _target_branches, order) ==
    LET non_exits == {i \in DOMAIN _target_branches : _target_branches[i] \notin Branches}
        w1 == IF non_exits # {} THEN create_issue_comment(w) ELSE w
    IN  IF w.raised THEN w
        ELSE IF exits_target_branches(_target_branches) = {} THEN w1
        ELSE IF ~is_merged(w1)
             THEN add_cp_labels(create_issue_comment(w1), order)
        ELSE cherry_pick_each(w1, order)

\* hook_action == "closed": the labels of the pull request are gone through
\* in the order the platform lists them
process_pull_request_closed(w, _is_merged, order) ==
    IF w.raised THEN w
    ELSE IF _is_merged THEN cherry_pick_each(w, order)
    ELSE w

InitCherry ==
    /\ InitPlatform
    /\ procs = [picks |-> [t \in Targets |-> 0], pr |-> "open"]

HandledCherry(w, op, review) ==
    /\ labels' = w.labels
    /\ checkRuns' = w.checkRuns
    /\ merged' = w.merged
    /\ mergeCalls' = w.mergeCalls
    /\ comments' = w.comments
    /\ evals' = w.evals
    /\ raisedOut' = w.raised
    /\ lastOp' = op
    /\ events' = events + 1
    /\ response' = process_webhook(w)
    /\ lastReview' = review
    /\ UNCHANGED <<mergeable, parent_committer, pending, dirty>>

\* issue_comment event with the body "/cherry-pick <branch> [<branch>]"
CherryPickComment ==
    /\ events < MaxCherryEvents
    /\ \E args \in {<<t>> : t \in Targets} \cup {<<t, u>> : t, u \in Targets} :
       \E order \in Orders(exits_target_branches(args)) :
          LET w == process_cherry_pick_command(GetPullRequestPicks, args, order)
          IN  /\ HandledCherry(w, "cherry_pick_command",
                     [kind |-> "cherry-pick", state |-> args, action |-> "",
                      user |-> alice, before |-> Platform(GetPullRequest),
                      picks |-> procs.picks, merged |-> merged])
              /\ procs' = [procs EXCEPT !.picks = w.picks]

\* the pull request is merged or closed; the closed event is handled
PullRequestClosed ==
    /\ events < MaxCherryEvents
    /\ procs.pr = "open"
    /\ \E _is_merged \in BOOLEAN :
       LET cp == {AfterPrefix(l, CHERRY_PICK_LABEL_PREFIX) :
                     l \in {k \in labels : StartsWith(k, CHERRY_PICK_LABEL_PREFIX)}}
           found == [GetPullRequestPicks EXCEPT !.merged = _is_merged, !.prMerged = _is_merged]
       IN  \E order \in Orders(cp) :
              LET w == process_pull_request_closed(found, _is_merged, order)
              IN  /\ HandledCherry(w, "closed",
                         [kind |-> "closed", state |-> order, action |-> "",
                          user |-> <<"">>, before |-> Platform(GetPullRequest),
                          picks |-> procs.picks, merged |-> _is_merged])
                  /\ procs' = [picks |-> w.picks,
                               pr |-> IF _is_merged THEN "merged" ELSE "closed"]

NextCherry ==
    \/ CherryPickComment
    \/ PullRequestClosed

SpecCherry == InitCherry /\ [][NextCherry]_vars

\* the prefix manage_reviewed_by_label uses for an approval of this user
approved_lgtm_label(reviewed_user) ==
    IF reviewed_user \in approvers THEN APPROVED_BY_LABEL_PREFIX ELSE LGTM_BY_LABEL_PREFIX

----------------------------------------------------------------------------
(* Two check_run deliveries handled at the same time.  process() fetches    *)
(* the pull request (its labels and mergeable flag) when the handler        *)
(* starts; the evaluator runs later on that object, with the check runs     *)
(* and the merged flag read from the platform when it runs.  Labels can     *)
(* change on the platform while a handler has not fetched yet.              *)

InitConc ==
    /\ InitPlatform
    /\ procs = [pc |-> [h \in Handlers |-> "idle"],
                snap |-> [h \in Handlers |->
                            [prLabels |-> {}, prMergeable |-> TRUE, prMerged |-> FALSE]]]

\* process(): self.pull_request = self._get_pull_request()
ConcFetch(h) ==
    /\ procs.pc[h] = "idle"
    /\ procs' = [procs EXCEPT !.pc[h] = "fetched",
                              !.snap[h] = [prLabels |-> labels, prMergeable |-> mergeable,
                                           prMerged |-> merged]]
    /\ lastOp' = "conc_fetch"
    /\ UNCHANGED <<labels, checkRuns, merged, mergeable, parent_committer, mergeCalls,
                   comments, events, evals, raisedOut, response, pending, dirty, lastReview>>

\* process_pull_request_check_run_webhook_data on the object fetched earlier
ConcEvaluate(h) ==
    /\ procs.pc[h] = "fetched"
    /\ LET w == [GetPullRequest EXCEPT !.prLabels = procs.snap[h].prLabels,
                                       !.prMergeable = procs.snap[h].prMergeable,
                                       !.prMerged = procs.snap[h].prMerged]
           r == process_pull_request_check_run_webhook_data(w, TOX_STR)
       IN  /\ labels' = r.labels
           /\ checkRuns' = r.checkRuns
           /\ merged' = r.merged
           /\ mergeCalls' = r.mergeCalls
           /\ comments' = r.comments
           /\ evals' = r.evals
           /\ raisedOut' = r.raised
           /\ response' = process_webhook(r)
    /\ procs' = [procs EXCEPT !.pc[h] = "done"]
    /\ lastOp' = "conc_evaluate"
    /\ UNCHANGED <<mergeable, parent_committer, events, pending, dirty, lastReview>>

\* a user sets or clears the hold label while a delivery is still to be fetched
ConcLabelChange ==
    /\ \E h \in Handlers : procs.pc[h] = "idle"
    /\ labels' = IF HOLD_LABEL_STR \in labels
                 THEN labels \ {HOLD_LABEL_STR} ELSE labels \cup {HOLD_LABEL_STR}
    /\ lastOp' = "conc_label_change"
    /\ UNCHANGED <<checkRuns, merged, mergeable, parent_committer, mergeCalls, comments,
                   events, evals, raisedOut, response, pending, dirty, procs, lastReview>>

NextConc ==
    \/ \E h \in Handlers : ConcFetch(h)
    \/ \E h \in Handlers : ConcEvaluate(h)
    \/ ConcLabelChange

SpecConc == InitConc /\ [][NextConc]_vars

\* the merge predicate on the state the platform is in now
MergeableNow ==
    LET r == check_if_can_be_merged(GetPullRequest)
    IN  r.evals[Len(r.evals)].verdict = "mergeable"

----------------------------------------------------------------------------
(* Label changes and the labeled / unlabeled events the platform sends for   *)
(* them.  Every change of the label set, by hand or by a handler, puts one  *)
(* event per label into pending; the server handles them one at a time.     *)

\* the labels the evaluator's verdict depends on
MergeLabels(_labels) ==
    {l \in _labels :
        \/ l \in {HOLD_LABEL_STR, WIP_STR} \cup can_be_merged_required_labels
        \/ \E u \in approvers :
               l \in {WithPrefix(APPROVED_BY_LABEL_PREFIX, u),
                      WithPrefix(CHANGED_REQUESTED_BY_LABEL_PREFIX, u)}}

\* the events the platform sends for the change from old to new
LabelEvents(old, new) ==
    {[action |-> "labeled", name |-> l] : l \in new \ old}
        \cup {[action |-> "unlabeled", name |-> l] : l \in old \ new}

\* some evaluation of the handler read the merge labels as they are now
EvaluatedCurrent(w) ==
    \E i \in DOMAIN w.evals :
        /\ w.evals[i].verdict # "skipped"
        /\ MergeLabels(w.evals[i].labelsRead) = MergeLabels(w.labels)

\* a handler has run in the specification of label events
HandledEv(w, op, count, delivered) ==
    /\ labels' = w.labels
    /\ checkRuns' = w.checkRuns
    /\ merged' = w.merged
    /\ mergeCalls' = w.mergeCalls
    /\ comments' = w.comments
    /\ evals' = w.evals
    /\ raisedOut' = w.raised
    /\ lastOp' = op
    /\ events' = events + count
    /\ response' = process_webhook(w)
    /\ pending' = (pending \ delivered) \cup LabelEvents(labels, w.labels)
    /\ dirty' = IF EvaluatedCurrent(w) THEN FALSE
                ELSE IF MergeLabels(w.labels) # MergeLabels(labels) THEN TRUE
                ELSE dirty
    /\ UNCHANGED <<mergeable, parent_committer, procs, lastReview>>

EvCommentBodies ==
    {<<Command(c, a)>> : c \in {HOLD_LABEL_STR, VERIFIED_LABEL_STR, LGTM_STR},
                         a \in {"", "cancel"}}

\* issue_comment event with one label command
EvIssueComment ==
    /\ events < MaxLabelChanges
    /\ \E cmds \in EvCommentBodies :
          HandledEv(process_comment_webhook_data(GetPullRequest, cmds, alice),
                    "issue_comment", 1, {})

\* pull_request_review event
EvPullRequestReview ==
    /\ events < MaxLabelChanges
    /\ \E state \in ReviewStates \ {<<"commented">>} :
          HandledEv(process_pull_request_review_webhook_data(GetPullRequest, state, alice),
                    "pull_request_review", 1, {})

\* a person sets or clears the wip label by hand
EvManualLabel ==
    /\ events < MaxLabelChanges
    /\ HandledEv([GetPullRequest EXCEPT
                    !.labels = IF WIP_STR \in @ THEN @ \ {WIP_STR} ELSE @ \cup {WIP_STR}],
                 "manual_label", 1, {})

\* pull_request event, action labeled or unlabeled, is delivered
EvPullRequestLabeled ==
    \E ev \in pending :
        HandledEv(process_pull_request_webhook_data(GetPullRequest, ev.action, ev.name),
                  "pull_request_labeled", 0, {ev})

NextEv ==
    \/ EvIssueComment
    \/ EvPullRequestReview
    \/ EvManualLabel
    \/ EvPullRequestLabeled

SpecEv == Init /\ [][NextEv]_vars

\* the pull request as the opened handler leaves it: the verified label and
\* the verified check-run success together, or label off and check not success
InitVerified ==
    /\ Init
    /\ (VERIFIED_LABEL_STR \in labels) <=> (checkRuns[VERIFIED_LABEL_STR] = SUCCESS_STR)

SpecVerified == InitVerified /\ [][NextEv]_vars

----------------------------------------------------------------------------
(* The events the server causes by its own writes.  One event arrives from *)
(* outside; every label the handlers add or remove and every check-run     *)
(* they create comes back as an event, which is handled in turn.           *)

MaxChainCount == 6

\* the check_run events the platform sends for the check-runs a handler wrote
CheckRunEvents(old, w) ==
    {[action |-> "check_run", name |-> c] :
        c \in {d \in DOMAIN old : w.checkRuns[d] # old[d]}
              \cup (IF \E i \in DOMAIN w.evals : w.evals[i].verdict # "skipped"
                    THEN {CAN_BE_MERGED_STR} ELSE {})}

\* the evaluations a handler ran to the end
Evaluations(w) ==
    Cardinality({i \in DOMAIN w.evals : w.evals[i].verdict # "skipped"})

Capped(n) == IF n > MaxChainCount THEN MaxChainCount ELSE n

InitChain ==
    /\ InitPlatform
    /\ procs = [external |-> FALSE, deliveries |-> 0, evaluations |-> 0]

HandledChain(w, op, delivered, caused, external) ==
    /\ labels' = w.labels
    /\ checkRuns' = w.checkRuns
    /\ merged' = w.merged
    /\ mergeCalls' = w.mergeCalls
    /\ comments' = w.comments
    /\ evals' = w.evals
    /\ raisedOut' = w.raised
    /\ lastOp' = op
    /\ events' = events
    /\ response' = process_webhook(w)
    /\ pending' = (pending \ delivered) \cup LabelEvents(labels, w.labels)
                      \cup CheckRunEvents(checkRuns, w) \cup caused
    /\ lastReview' = [kind |-> op, delivered |-> delivered]
    /\ procs' = [external |-> procs.external \/ external,
                 deliveries |-> Capped(procs.deliveries + Cardinality(delivered)),
                 evaluations |-> Capped(procs.evaluations + Evaluations(w))]
    /\ UNCHANGED <<mergeable, parent_committer, dirty>>

\* the one event from outside: a comment with a label command, a review, or
\* a check-run a CI system completed
ChainExternalEvent ==
    /\ ~procs.external
    /\ \/ \E cmds \in EvCommentBodies :
             HandledChain(process_comment_webhook_data(GetPullRequest, cmds, alice),
                          "issue_comment", {}, {}, TRUE)
       \/ \E state \in ReviewStates \ {<<"commented">>} :
             HandledChain(process_pull_request_review_webhook_data(GetPullRequest, state, alice),
                          "pull_request_review", {}, {}, TRUE)
       \/ \E c \in BranchContexts, st \in {SUCCESS_STR, FAILURE_STR} :
             HandledChain([GetPullRequest EXCEPT !.checkRuns[c] = st],
                          "external_check_run", {},
                          {[action |-> "check_run", name |-> c]}, TRUE)

\* pull_request event, action labeled or unlabeled, caused by a label write
ChainLabelEvent ==
    \E ev \in pending :
        /\ ev.action \in {"labeled", "unlabeled"}
        /\ HandledChain(process_pull_request_webhook_data(GetPullRequest, ev.action, ev.name),
                        "pull_request_labeled", {ev},
                        IF verified_job /\ Lower(ev.name) = VERIFIED_LABEL_STR
                        THEN {[action |-> "check_run", name |-> VERIFIED_LABEL_STR]}
                        ELSE {}, FALSE)

\* check_run event caused by a check-run write
ChainCheckRunEvent ==
    \E ev \in pending :
        /\ ev.action = "check_run"
        /\ HandledChain(process_pull_request_check_run_webhook_data(GetPullRequest, ev.name),
                        "check_run", {ev}, {}, FALSE)

NextChain ==
    \/ ChainExternalEvent
    \/ ChainLabelEvent
    \/ ChainCheckRunEvent

SpecChain == InitChain /\ [][NextChain]_vars

\* every event in flight is delivered
SpecChainFair == SpecChain /\ WF_vars(NextChain)

----------------------------------------------------------------------------
(* Properties.  evals holds one record per call of check_if_can_be_merged  *)
(* made by the handler that ran last; every reachable state is the state   *)
(* after some handler, so a property of evals speaks of every evaluation.  *)

\* C1: running the evaluator twice on the same pull request state, with no
\* label or check-run mutation in between, gives the same verdict, the same
\* failure reasons, and the same final can-be-merged label and check-run.
C1_EvaluatorIdempotent ==
    \A i \in 1..(Len(evals) - 1) :
        LET a == evals[i]
            b == evals[i + 1]
        IN  (a.verdict # "skipped" /\ b.verdict # "skipped" /\ b.pre = a.post)
            => /\ b.verdict = a.verdict
               /\ b.reasons = a.reasons
               /\ (CAN_BE_MERGED_STR \in b.post.labels) = (CAN_BE_MERGED_STR \in a.post.labels)
               /\ b.post.checkRuns[CAN_BE_MERGED_STR] = a.post.checkRuns[CAN_BE_MERGED_STR]

\* C2: when every required check has a success check-run, the pull request
\* carries exactly one ApprovedBy-<user> label and that user is an approver
\* other than the author, and it carries no hold, wip or ChangesRequestedBy
\* label (the required labels are present and the platform calls it
\* mergeable), the evaluator answers mergeable, adds the can-be-merged label
\* and sets the can-be-merged check to success.
C2_MergeableWhenAllConditionsHold ==
    \A i \in DOMAIN evals :
        LET e == evals[i]
            approvals == {l \in e.pre.labels : StartsWith(l, APPROVED_BY_LABEL_PREFIX)}
        IN  (/\ e.verdict # "skipped"
             /\ \A c \in get_all_required_status_checks : e.checksRead[c] = SUCCESS_STR
             /\ \E u \in approvers \ {parent_committer} :
                    approvals = {WithPrefix(APPROVED_BY_LABEL_PREFIX, u)}
             /\ HOLD_LABEL_STR \notin e.pre.labels
             /\ WIP_STR \notin e.pre.labels
             /\ ~ \E l \in e.pre.labels : StartsWith(l, CHANGED_REQUESTED_BY_LABEL_PREFIX)
             /\ can_be_merged_required_labels \subseteq e.pre.labels
             /\ e.mergeable)
            => /\ e.verdict = "mergeable"
               /\ CAN_BE_MERGED_STR \in e.post.labels
               /\ e.post.checkRuns[CAN_BE_MERGED_STR] = SUCCESS_STR

\* C3: whenever the hold label is on the pull request when the evaluator
\* runs, the verdict is blocked with the reason "Hold label exists.", the
\* can-be-merged check is not reported as success and merge is not called.
C3_HoldBlocks ==
    \A i \in DOMAIN evals :
        LET e == evals[i]
        IN  (e.verdict # "skipped" /\ HOLD_LABEL_STR \in e.pre.labels)
            => /\ e.verdict = "blocked"
               /\ \E j \in DOMAIN e.reasons : e.reasons[j].kind = "Hold label exists."
               /\ e.post.checkRuns[CAN_BE_MERGED_STR] # SUCCESS_STR
               /\ e.post.mergeCalls = e.pre.mergeCalls

\* C4: whenever the pull request carries a ChangesRequestedBy-<user> label
\* whose user is a designated approver, the evaluator answers blocked,
\* whatever ApprovedBy labels other approvers have left.
C4_ChangesRequestedByApproverBlocks ==
    \A i \in DOMAIN evals :
        LET e == evals[i]
        IN  (/\ e.verdict # "skipped"
             /\ \E u \in approvers :
                    WithPrefix(CHANGED_REQUESTED_BY_LABEL_PREFIX, u) \in e.pre.labels)
            => e.verdict = "blocked"

\* C5: whenever a required check has status in_progress when the evaluator
\* runs, the verdict is blocked: the can-be-merged check is not set to
\* success, the can-be-merged label is not added and merge is not called.
C5_InProgressBlocks ==
    \A i \in DOMAIN evals :
        LET e == evals[i]
        IN  (/\ e.verdict # "skipped"
             /\ \E c \in get_all_required_status_checks : e.checksRead[c] = IN_PROGRESS_STR)
            => /\ e.verdict = "blocked"
               /\ e.post.checkRuns[CAN_BE_MERGED_STR] # SUCCESS_STR
               /\ CAN_BE_MERGED_STR \notin e.post.labels \ e.pre.labels
               /\ e.post.mergeCalls = e.pre.mergeCalls

\* an evaluation that nothing but the check in progress blocks
C5_Witness ==
    \E i \in DOMAIN evals :
        LET e == evals[i]
        IN  /\ e.verdict = "blocked"
            /\ \E c \in get_all_required_status_checks : e.checksRead[c] = IN_PROGRESS_STR
            /\ \A j \in DOMAIN e.reasons :
                   e.reasons[j].kind \in {"Some required check runs in progress",
                                          "Some check runs failed"}

C7_SkipWhenMerged ==
    \A i \in DOMAIN evals :
        evals[i].pre.merged
        => (evals[i].verdict = "skipped" /\ evals[i].post = evals[i].pre)

\* a pull request merged by hand, then a check_run event
C7_Witness ==
    /\ lastOp = "check_run"
    /\ mergeCalls = 0
    /\ \E i \in DOMAIN evals : evals[i].pre.merged /\ evals[i].verdict = "skipped"

\* C8: label mutations are idempotent: adding a label twice leaves the
\* labels as after the first addition, and removing a label that the pull
\* request does not carry changes nothing and is not an error, also when a
\* command of the same comment has just removed it.
C8_LabelMutationsIdempotent ==
    /\ \A n \in InitLabelUniverse \cup ManualLabels :
          LET w == GetPullRequest
              added == _add_label(w, n)
              again == _add_label(added, n)
              removed == _remove_label(w, n)
          IN  /\ ~again.raised
              /\ again.labels = added.labels
              /\ n \notin w.labels => (~removed.raised /\ removed.labels = w.labels)
    /\ (lastOp = "issue_comment" /\ evals = <<>>) => ~raisedOut

\* C9: after add_size_label the pull request carries exactly one size/ label.
C9_ExactlyOneSizeLabel ==
    lastOp = "add_size_label"
    => Cardinality({l \in labels : StartsWithSizePrefix(l)}) = 1

\* C10: the verdict is mergeable only if every required check has a
\* check-run with conclusion success on the head commit; a required check
\* without a check-run blocks.
C10_MergeableOnlyIfAllRequiredSucceeded ==
    \A i \in DOMAIN evals :
        evals[i].verdict = "mergeable"
        => \A c \in get_all_required_status_checks : evals[i].checksRead[c] = SUCCESS_STR

\* C11: after every evaluation of a pull request that was not merged and
\* that ran to its end (mergeable path, blocked path, or the except block),
\* the can-be-merged label is on the pull request if and only if the
\* can-be-merged check-run has conclusion success.
C11_LabelIffCheckSuccess ==
    \A i \in DOMAIN evals :
        LET e == evals[i]
        IN  (e.verdict # "skipped" /\ ~e.raised)
            => ((CAN_BE_MERGED_STR \in e.post.labels)
                    = (e.post.checkRuns[CAN_BE_MERGED_STR] = SUCCESS_STR))

\* C12: once every labeled / unlabeled event has been handled, no change of
\* a label that matters for merging (an approver's ApprovedBy- or
\* ChangesRequestedBy- label, verified, hold, wip, a required label) on an
\* open pull request is left without an evaluation that has read it.
C12_ReevaluatedAfterLabelChange ==
    (pending = {} /\ ~merged) => ~dirty

\* C13: when the same opened / synchronize delivery is handled twice at the
\* same time, in any interleaving, the tox command is executed at most once
\* for the head commit: the second handler finds the check in progress and
\* skips.
C13_CheckCommandRunsOnce ==
    procs.execs <= 1

\* C14: when _run_tox raises during an opened / synchronize event, the
\* exception does not leave process_opened_or_synchronize_pull_request (the
\* handler goes on to assign the owner), and once no handler is running the
\* tox check has conclusion failure, it is not left in progress.
C14_CheckExceptionContained ==
    \A h \in Handlers :
        procs.toxRaised[h]
        => /\ procs.pc[h] # "failed"
           /\ (\A g \in Handlers : procs.pc[g] \in {"idle", "failed", "done"})
                  => checkRuns[TOX_STR] = FAILURE_STR

\* C15: when two deliveries that both run the evaluator are handled at the
\* same time, then once both have finished (and the pull request is not
\* merged) the can-be-merged label is present exactly when the merge
\* predicate holds on the final state, and the can-be-merged check run is
\* success exactly then: the decision taken on the older snapshot does not
\* overwrite the newer one.
C15_ConcurrentEvaluatorsAgree ==
    ((\A h \in Handlers : procs.pc[h] = "done") /\ ~merged)
    => /\ (CAN_BE_MERGED_STR \in labels) = MergeableNow
       /\ (checkRuns[CAN_BE_MERGED_STR] = SUCCESS_STR) = MergeableNow

\* C16: every delivery the endpoint has answered was answered with a 2xx
\* status; when an exception was raised while the handler was constructed or
\* while the event was processed, the answer is the normal (200) response
\* "Process failed", otherwise it is "process success".
C16_EndpointAlwaysAnswers2xx ==
    response.body # "none"
    => /\ response.status \in 200..299
       /\ raisedOut = (response = [status |-> 200, body |-> "Process failed"])

\* an exception was raised while a delivery was processed, and was answered
C16_Witness ==
    /\ raisedOut
    /\ lastOp \in {"issue_comment", "pull_request_review", "repository_not_found"}
    /\ response.body = "Process failed"

\* C17: a delivery for which no pull request can be resolved is processed
\* without an exception leaving process(): a push goes to the tag handling,
\* a check_run to the lookup by head sha, and a delivery of any other kind
\* ends with the labels and the check runs as they were.
C17_NoPullRequestDoesNotAbort ==
    [][/\ lastOp' \in {"push", "check_run_by_head_sha", "no_pull_request"} => ~raisedOut'
       /\ lastOp' = "no_pull_request" => (labels' = labels /\ checkRuns' = checkRuns)]_vars

\* C18: after a changes_requested review by a user U the pull request
\* carries ChangesRequestedBy-U and no longer carries U's approval label
\* (ApprovedBy-U when U is an approver, LGTMBy-U otherwise).
C18_ChangesRequestedReplacesApproval ==
    (lastReview.kind = "review" /\ lastReview.state = <<"changes_requested">>)
    => /\ WithPrefix(CHANGED_REQUESTED_BY_LABEL_PREFIX, lastReview.user) \in labels
       /\ WithPrefix(approved_lgtm_label(lastReview.user), lastReview.user) \notin labels

C20_AuthorApprovalIsNoOp ==
    (/\ lastReview.kind \in {"review", "comment"}
     /\ lastReview.state \in {<<"approved">>, LGTM_STR}
     /\ lastReview.user = parent_committer)
    => (labels = lastReview.before /\ ~raisedOut)

\* the author has sent /lgtm cancel while a review label is on the pull request
C20_Witness ==
    /\ lastReview.kind = "comment"
    /\ lastReview.action = DELETE_STR
    /\ lastReview.user = parent_committer
    /\ lastReview.before # {}
    /\ labels = lastReview.before

\* C21: after a synchronize event has been handled, no ApprovedBy-,
\* CommentedBy- or ChangesRequestedBy- label that was on the pull request
\* before the event is on it any more, however many there were.
C21_SynchronizeRemovesReviewLabels ==
    lastReview.kind = "synchronize"
    => \A l \in lastReview.before :
          (\/ StartsWith(l, APPROVED_BY_LABEL_PREFIX)
           \/ StartsWith(l, COMMENTED_BY_LABEL_PREFIX)
           \/ StartsWith(l, CHANGED_REQUESTED_BY_LABEL_PREFIX))
          => l \notin labels

\* a push to a pull request that carried review labels of two kinds
C21_Witness ==
    /\ lastReview.kind = "synchronize"
    /\ \E a, b \in lastReview.before :
          /\ StartsWith(a, APPROVED_BY_LABEL_PREFIX)
          /\ \/ StartsWith(b, CHANGED_REQUESTED_BY_LABEL_PREFIX)
             \/ StartsWith(b, COMMENTED_BY_LABEL_PREFIX)
    /\ ~(\E l \in labels : is_review_label(l))

\* C22: after an opened or synchronize event with the verified job enabled:
\* when the user who pushed is not in the auto-trusted list, the verified
\* label is not on the pull request and the verified check is queued; when
\* the user is in the list, the verified check is success and the label is
\* on the pull request.
C22_VerifiedFollowsPusher ==
    (lastReview.kind \in {"opened", "synchronize"} /\ verified_job)
    => IF lastReview.user \in auto_verified_and_merged_users
       THEN /\ checkRuns[VERIFIED_LABEL_STR] = SUCCESS_STR
            /\ VERIFIED_LABEL_STR \in labels
       ELSE /\ checkRuns[VERIFIED_LABEL_STR] = QUEUED_STR
            /\ VERIFIED_LABEL_STR \notin labels

\* C23: an evaluation answers mergeable only if the pull request carries an
\* ApprovedBy-<user> label of an approver who is not the author; without one
\* it answers blocked and its reasons list the approvers, the author left
\* out, as missing
C23_MergeableOnlyWithApproverLabel ==
    \A i \in DOMAIN evals :
        LET e == evals[i]
            approval ==
                \E u \in approvers \ {parent_committer} :
                    WithPrefix(APPROVED_BY_LABEL_PREFIX, u) \in e.pre.labels
        IN  e.verdict # "skipped" =>
                /\ e.verdict = "mergeable" => approval
                /\ ~approval =>
                      /\ e.verdict = "blocked"
                      /\ \E j \in DOMAIN e.reasons :
                            e.reasons[j] = Line("Missing lgtm/approved from approvers",
                                                approvers \ {parent_committer})

\* C24: an evaluation's reasons hold a "Some check runs failed" line exactly
\* when some required check-run other than can-be-merged is completed with a
\* conclusion other than success, and the line names exactly those check-runs
C24_FailedLineNamesCompletedFailures ==
    \A i \in DOMAIN evals :
        LET e == evals[i]
            completed_failed ==
                {c \in get_all_required_status_checks \ {CAN_BE_MERGED_STR} :
                    /\ e.checksRead[c] # "none"
                    /\ Status(e.checksRead[c]) = "completed"
                    /\ Conclusion(e.checksRead[c]) # SUCCESS_STR}
            failed_lines ==
                {j \in DOMAIN e.reasons : e.reasons[j].kind = "Some check runs failed"}
        IN  e.verdict # "skipped" =>
                /\ failed_lines # {} <=> completed_failed # {}
                /\ \A j \in failed_lines : e.reasons[j].names = completed_failed

\* C25: for every approver, an ApprovedBy-<login> label the evaluator reads
\* counts as that approver's approval (unless the approver is the author), a
\* ChangesRequestedBy-<login> label it reads adds the change-request reason,
\* and the login the evaluator takes out of either label is that login
C25_ApproverRecognisedFromLabel ==
    \A i \in DOMAIN evals :
        LET e == evals[i]
            kinds == {e.reasons[j].kind : j \in DOMAIN e.reasons}
        IN  e.verdict # "skipped" =>
              \A u \in approvers :
                /\ WithPrefix(APPROVED_BY_LABEL_PREFIX, u) \in e.labelsRead =>
                      /\ SplitLast(WithPrefix(APPROVED_BY_LABEL_PREFIX, u)) = u
                      /\ u # parent_committer =>
                            "Missing lgtm/approved from approvers" \notin kinds
                /\ WithPrefix(CHANGED_REQUESTED_BY_LABEL_PREFIX, u) \in e.labelsRead =>
                      /\ SplitLast(WithPrefix(CHANGED_REQUESTED_BY_LABEL_PREFIX, u)) = u
                      /\ "PR has changed requests from approvers" \in kinds

\* C26: the labels an evaluation reads are the labels the pull request has
\* on the platform when that evaluation starts, whatever the handler added
\* or removed before it
C26_EvaluationReadsCurrentLabels ==
    \A i \in DOMAIN evals :
        evals[i].verdict # "skipped" => evals[i].labelsRead = evals[i].pre.labels

\* C27: a comment whose command lines are all outside the built-in commands
\* and the user labels changes nothing on the pull request and raises
\* nothing; and whatever the command lines of a comment are, the labels the
\* comment adds or removes are user labels (for lgtm the commenter's review
\* label), the can-be-merged label being the evaluator's
C27_OnlyUserLabelsByComment ==
    lastReview.kind = "commands" =>
        LET body == lastReview.state
            changed == (labels \ lastReview.before.labels)
                           \cup (lastReview.before.labels \ labels)
        IN  /\ (\A i \in DOMAIN body :
                    body[i].cmd \notin available_commands \cup USER_LABELS_DICT)
                => /\ Platform(GetPullRequest) = lastReview.before
                   /\ ~raisedOut
            /\ \A l \in changed :
                  \/ l \in USER_LABELS_DICT
                  \/ l = CAN_BE_MERGED_STR
                  \/ /\ is_review_label(l)
                     /\ \E i \in DOMAIN body : body[i].cmd = LGTM_STR

\* C28: add_size_label leaves the pull request with the label of its size:
\* size/XS below 20, size/S from 20 to 49, size/M from 50 to 99, size/L from
\* 100 to 299, size/XL from 300 to 499, size/XXL from 500 on; when the pull
\* request already had that label, nothing on it is changed
C28_SizeLabelByThresholds ==
    lastReview.kind = "size" =>
        LET s == lastReview.size
            expected ==
                IF s \in 0..19 THEN SizeLabel("XS")
                ELSE IF s \in 20..49 THEN SizeLabel("S")
                ELSE IF s \in 50..99 THEN SizeLabel("M")
                ELSE IF s \in 100..299 THEN SizeLabel("L")
                ELSE IF s \in 300..499 THEN SizeLabel("XL")
                ELSE SizeLabel("XXL")
        IN  /\ expected \in labels
            /\ expected \in lastReview.before.labels =>
                  Platform(GetPullRequest) = lastReview.before

\* a pull request whose size is on a threshold had the label of another
\* size and now has the label of its own
C28_Witness ==
    /\ lastReview.kind = "size"
    /\ lastReview.size \in {20, 50, 100, 300, 500}
    /\ SizeLabel(SizeName(lastReview.size)) \in labels \ lastReview.before.labels
    /\ ExistsSizeLabel([prLabels |-> lastReview.before.labels]) # {}

\* C29: a call of _add_label or _remove_label that wrote to the platform has
\* sampled the label in wait_for_label before it returns, and wait_for_label
\* stops after a bounded number of samples with True or False
C29_WriteIsFollowedByPoll ==
    /\ procs.pc = "returned" /\ procs.wrote =>
          /\ procs.samples >= 1
          /\ procs.answer \in {"True", "False"}
    /\ procs.samples <= wait_timeout \div sleep

\* C30: the text get_check_run_text builds is never longer than 65535
\* characters, whatever the lengths of err and out
C30_CheckRunTextWithinLimit ==
    procs.text # -1 => procs.text <= 65535

\* C31: once the checks of an opened / synchronize event have ended and the
\* command of one of them returned unsuccessful, that check has been
\* reported with conclusion failure, and every check of the event has either
\* been reported with the conclusion of its own command or was left to a
\* run of the same check that was in progress
C31_FailedCheckDoesNotStopSiblings ==
    (/\ procs.phase = "collected"
     /\ \E c \in RunChecks : procs.rc[<<"opened", c>>] = "fail")
    => \A c \in RunChecks :
          LET t == <<"opened", c>>
          IN  /\ procs.rc[t] = "fail" => procs.reported[t] = FAILURE_STR
              /\ procs.rc[t] = "ok" => procs.reported[t] = SUCCESS_STR
              /\ procs.rc[t] = "none" => procs.skipped[t]

\* C32: the statuses an opened / synchronize event writes for a check are
\* queued, in_progress and success or failure, in this order, no check is
\* in progress before every check was queued, and a check whose command was
\* started is in the end reported with a conclusion
C32_CheckRunLifecycle ==
    /\ [](\A c \in RunChecks :
            /\ \E concl \in {SUCCESS_STR, FAILURE_STR} :
                 \E n \in 0..3 :
                    procs.hist[c] = SubSeq(<<QUEUED_STR, IN_PROGRESS_STR, concl>>, 1, n)
            /\ Len(procs.hist[c]) >= 2 =>
                 \A d \in RunChecks : Len(procs.hist[d]) >= 1)
    /\ \A c \in RunChecks :
          (procs.pc[<<"opened", c>>] = "command")
              ~> (procs.reported[<<"opened", c>>] \in {SUCCESS_STR, FAILURE_STR})

\* C33: a thread that is about to run a check and finds the check-run of
\* that name in progress ends there: the command is not started and the
\* check-runs stay as they are
C33_InProgressCheckIsNotRunAgain ==
    [][\A t \in Threads :
          (/\ procs.pc[t] = "ready"
           /\ procs.status[t[2]] = IN_PROGRESS_STR
           /\ procs'.pc[t] # "ready")
          => /\ procs'.pc[t] = "done"
             /\ procs'.status = procs.status
             /\ procs'.execs = procs.execs]_vars

\* the container build was asked for while it was in progress, and was left alone
C33_Witness ==
    /\ procs.skipped[<<"retest", BUILD_CONTAINER_STR>>]
    /\ procs.status[BUILD_CONTAINER_STR] = IN_PROGRESS_STR
    /\ procs.execs[BUILD_CONTAINER_STR] = 0

\* C34: after a /cherry-pick command on a pull request that is not merged,
\* a branch of the command that does not exist has got no cherry-pick-<branch>
\* label and no cherry-pick, and a comment was posted; on a merged pull
\* request no cherry-pick to such a branch is tried: nothing is raised
C34_UnknownBranchOnlyCommented ==
    lastReview.kind = "cherry-pick" =>
        \A i \in DOMAIN lastReview.state :
            LET target == lastReview.state[i]
            IN  target \notin Branches =>
                  /\ WithPrefix(CHERRY_PICK_LABEL_PREFIX, target)
                         \notin labels \ lastReview.before.labels
                  /\ procs.picks[target] = lastReview.picks[target]
                  /\ comments > lastReview.before.comments
                  /\ ~raisedOut

\* C38: a /cherry-pick command for existing branches on a pull request that
\* is not merged runs no cherry-pick and adds the labels cherry-pick-<branch>
\* and nothing else to the labels; the closed event of a merged pull request
\* runs one cherry-pick for each cherry-pick-<branch> label on it and raises
\* nothing; the closed event of a pull request that was not merged runs
\* none; on a merged pull request the command runs one cherry-pick for each
\* of its branches
C38_CherryPickWhenMerged ==
    LET args == IF lastReview.kind = "cherry-pick"
                THEN {lastReview.state[i] : i \in DOMAIN lastReview.state} ELSE {}
        cp == IF lastReview.kind = "closed"
              THEN {AfterPrefix(l, CHERRY_PICK_LABEL_PREFIX) :
                       l \in {k \in lastReview.before.labels :
                                 StartsWith(k, CHERRY_PICK_LABEL_PREFIX)}}
              ELSE {}
        ran(t) == procs.picks[t] - lastReview.picks[t]
    IN  /\ (lastReview.kind = "cherry-pick" /\ args \subseteq Branches /\ ~lastReview.merged)
           => /\ \A t \in Targets : ran(t) = 0
              /\ labels = lastReview.before.labels
                            \cup {WithPrefix(CHERRY_PICK_LABEL_PREFIX, t) : t \in args}
        /\ (lastReview.kind = "cherry-pick" /\ args \subseteq Branches /\ lastReview.merged)
           => \A t \in Targets : ran(t) = IF t \in args THEN 1 ELSE 0
        /\ (lastReview.kind = "closed" /\ lastReview.merged)
           => /\ \A t \in Targets : ran(t) = IF t \in cp THEN 1 ELSE 0
              /\ ~raisedOut
        /\ (lastReview.kind = "closed" /\ ~lastReview.merged)
           => \A t \in Targets : ran(t) = 0

\* C35: an evaluation in which the merge call raised ends with the
\* can-be-merged label off the pull request and the can-be-merged check-run
\* at failure, and the exception stays inside the evaluation
C35_EvaluationExceptionHandled ==
    \A i \in DOMAIN evals :
        LET e == evals[i]
        IN  (e.post.mergeCalls > e.pre.mergeCalls /\ ~e.post.merged)
            => /\ CAN_BE_MERGED_STR \notin e.post.labels
               /\ e.post.checkRuns[CAN_BE_MERGED_STR] = FAILURE_STR
               /\ ~e.raised

\* C36: the events for the can-be-merged check-run and the can-be-merged
\* label run no evaluation, and after one event from outside the events the
\* server caused are all handled and none is left in flight
C36_SelfCausedEventsEnd ==
    /\ [](\A ev \in (IF lastOp \in {"check_run", "pull_request_labeled"}
                     THEN lastReview.delivered ELSE {}) :
              ev.name = CAN_BE_MERGED_STR => evals = <<>>)
    /\ <>[](pending = {})

\* the event for the can-be-merged check-run an evaluation wrote has been
\* delivered, and nothing is in flight any more
C36_Witness ==
    /\ pending = {}
    /\ procs.evaluations >= 2
    /\ lastOp = "check_run"
    /\ lastReview.delivered = {[action |-> "check_run", name |-> CAN_BE_MERGED_STR]}

\* C37: once no event for the verified label is in flight, the verified
\* check-run is success exactly when the verified label is on the pull request
C37_VerifiedCheckFollowsLabel ==
    (\A ev \in pending : Lower(ev.name) # VERIFIED_LABEL_STR)
        => ((checkRuns[VERIFIED_LABEL_STR] = SUCCESS_STR)
                <=> (VERIFIED_LABEL_STR \in labels))

\* C39: after "/x" and "/x cancel" from one user who is not the author, on
\* a pull request that did not carry x's label, the labels are what they
\* were before the two commands
C39_CommandThenCancelRestoresLabels ==
    (/\ procs.stage = "done"
     /\ procs.user # parent_committer
     /\ CommandLabel(procs.x, procs.user) \notin procs.before)
        => labels = procs.before

----------------------------------------------------------------------------
TypeOK ==
    /\ checkRuns \in [CheckNames -> CheckStates]
    /\ merged \in BOOLEAN
    /\ mergeCalls \in Nat

====
